---- MODULE Spec2Model ----
(***************************************************************************)
(* Master-side online index backfill of yb/master/backfill_index.cc:       *)
(* the multi-stage alter-table driver, the per-table backfill job, the     *)
(* safe-time election, the per-tablet chunk loop and the finalizers,       *)
(* over one indexed table, its sys-catalog rows and its tablets; and the    *)
(* data block of rocksdb's block_test.                                     *)
(***************************************************************************)
EXTENDS Integers, Sequences, FiniteSets, TLC

\* ------------------------------------------------------------------ bounds
NumTablets == 2      \* tablets of the indexed table
MaxTime == 2         \* safe times a tablet server may answer: 1..MaxTime
MaxKey == 1          \* row keys of a tablet: 1..MaxKey ("" is 0)
SingleJob == 1       \* BackfillTable objects of a behaviour with one backfill
MaxJobs == 2         \* BackfillTable objects constructed in one behaviour
MaxNumKeys == 16     \* entries added to a block: 0..MaxNumKeys
MaxRestartInterval == 3  \* block_restart_interval of a BlockBuilder: 1..MaxRestartInterval
MaxAttempts == 2     \* requests one RPC task may send: the first and its retries
MaxTerm == 2         \* leader terms of this master: 1..MaxTerm

Tablets == 1..NumTablets
Indexes == {1, 2}    \* index tables of the indexed table, in declaration order
CreatedIndexes == {1} \* the indexes attached when a backfill behaviour begins
Threads == {1, 2}    \* callers of LaunchNextTableInfoVersionIfNecessary
Times == 1..MaxTime
Keys == 1..MaxKey

kInvalid == 0        \* HybridTime::kInvalid; an absent backfilling_timestamp property
EmptyKey == 0        \* the empty string as a row key
Absent == -1         \* no entry in the backfilled_until map
NotRead == -1        \* GetMiddleKey was not called on the block
Incomplete == 0      \* Status::Incomplete as the result of GetMiddleKey

NoIndex == "NO_INDEX"
Permissions ==
  { "DELETE_ONLY", "WRITE_AND_DELETE", "DO_BACKFILL", "READ_WRITE_AND_DELETE",
    "WRITE_AND_DELETE_WHILE_REMOVING", "DELETE_ONLY_WHILE_REMOVING",
    "INDEX_UNUSED", "NOT_USED" }
CheckFailed == "CHECK_FAILED"
NoSnapshot == [version |-> -1, perms |-> [i \in Indexes |-> NoIndex]]

VARIABLES
  table,        \* committed in-memory SysTablesEntryPB of the indexed table
  disk_table,   \* the same row as last persisted in the sys catalog
  tablets,      \* committed in-memory backfilled_until map of every tablet
  disk_tablets, \* the same maps as last persisted
  is_backfilling, \* TableInfo::is_backfilling_ of the indexed table
  index_tables, \* per index table: its state and its is_backfilling property
  jobs,         \* the BackfillTable objects constructed so far
  threads,      \* the callers of LaunchNextTableInfoVersionIfNecessary
  chunks,       \* history: the BackfillIndex requests sent
  gc_rpcs,      \* history: index tables whose tablets were sent BackfillDone
  block,        \* the rocksdb block of block_test: its builder, then its reader
  alter_rpcs,   \* history: the schema versions SendAlterTableRequest has broadcast
  task,         \* one RPC task (GetSafeTimeForTablet or BackfillChunk) and its reports
  leader_ready_term  \* catalog_manager->leader_ready_term(): the term of this master

vars == << table, disk_table, tablets, disk_tablets, is_backfilling, index_tables,
           jobs, threads, chunks, gc_rpcs, block, alter_rpcs, task,
           leader_ready_term >>

Max(a, b) == IF a >= b THEN a ELSE b

\* ------------------------------------------------------- pure functions
IsTransientState(perm) ==
  perm # "READ_WRITE_AND_DELETE" /\ perm # "NOT_USED"

NextPermission(perm) ==
  CASE perm = "DELETE_ONLY" -> "WRITE_AND_DELETE"
    [] perm = "WRITE_AND_DELETE" -> "DO_BACKFILL"
    [] perm = "WRITE_AND_DELETE_WHILE_REMOVING" -> "DELETE_ONLY_WHILE_REMOVING"
    [] perm = "DELETE_ONLY_WHILE_REMOVING" -> "INDEX_UNUSED"
    [] OTHER -> CheckFailed

\* HybridTime::MakeAtLeast
MakeAtLeast(cur, ht) ==
  IF ht = kInvalid THEN cur ELSE IF cur = kInvalid THEN ht ELSE Max(cur, ht)

\* google::protobuf::Map::insert: an existing key keeps its value
MapInsert(m, idx, key) ==
  IF m[idx] = Absent THEN [m EXCEPT ![idx] = key] ELSE m

MapErase(m, idx) == [m EXCEPT ![idx] = Absent]

\* the copy into fully_applied_* made under the write lock
SnapshotFullyApplied(t) ==
  [t EXCEPT !.fa = [version |-> t.version, perms |-> t.perms]]

\* an UpdateIndexPermission that writes the permissions and leaves the
\* schema version as it is
ApplyPermissions_SameVersion(t, mapping) ==
  [SnapshotFullyApplied(t) EXCEPT
     !.perms = [i \in Indexes |->
                  IF mapping[i] # NoIndex /\ t.perms[i] # NoIndex
                  THEN mapping[i] ELSE t.perms[i]],
     !.state = "ALTERING"]

\* the body of UpdateIndexPermission under the write lock
ApplyPermissions(t, mapping) ==
  [SnapshotFullyApplied(t) EXCEPT
     !.perms = [i \in Indexes |->
                  IF mapping[i] # NoIndex /\ t.perms[i] # NoIndex
                  THEN mapping[i] ELSE t.perms[i]],
     !.version = t.version + 1,
     !.state = "ALTERING"]

\* UpdateIndexPermission(perm_mapping, current_version) on table row t with
\* write outcome ok; current_version is NoGuard for boost::none
NoGuard == -1

\* an UpdateIndexPermission that commits in memory what it failed to write
UpdateIndexPermission_CommitsOnFailure(t, mapping, current_version, ok) ==
  IF current_version # NoGuard /\ current_version # t.version
  THEN [tbl |-> t, status |-> "AlreadyPresent"]
  ELSE [tbl |-> ApplyPermissions(t, mapping), status |-> IF ok THEN "OK" ELSE "failed"]

UpdateIndexPermission(t, mapping, current_version, ok) ==
  IF current_version # NoGuard /\ current_version # t.version
  THEN [tbl |-> t, status |-> "AlreadyPresent"]
  ELSE IF ok THEN [tbl |-> ApplyPermissions(t, mapping), status |-> "OK"]
  ELSE [tbl |-> t, status |-> "failed"]

\* a ClearAlteringState that also moves the table to the next version
ClearedAltering_NextVersion(t) ==
  [t EXCEPT !.fa = NoSnapshot, !.state = "RUNNING", !.version = t.version + 1]

\* the body of ClearAlteringState under the write lock
ClearedAltering(t) ==
  [t EXCEPT !.fa = NoSnapshot, !.state = "RUNNING"]

\* the classification loop of LaunchNextTableInfoVersionIfNecessary
IndexesToBackfill(t) == {i \in Indexes : t.perms[i] = "DO_BACKFILL"}
IndexesToDelete(t) == {i \in Indexes : t.perms[i] = "INDEX_UNUSED"}
IndexesToUpdate(t) ==
  {i \in Indexes : t.perms[i] \notin
     {NoIndex, "DO_BACKFILL", "INDEX_UNUSED", "READ_WRITE_AND_DELETE"}}
UpdateMapping(t) ==
  [i \in Indexes |->
     IF i \in IndexesToUpdate(t) THEN NextPermission(t.perms[i]) ELSE NoIndex]
\* the last element of a vector instead of element [0]
First_Last(S) == CHOOSE i \in S : \A k \in S : i >= k

\* indexes_to_delete[0], indexes_to_backfill[0]: the vectors are filled in
\* the order of pb.indexes
First(S) == CHOOSE i \in S : \A k \in S : i <= k

\* stale: the caller's last call found another version and returned
IdleThread ==
  [pc |-> "idle", ver |-> 0, del |-> 0, bf |-> 0, stale |-> FALSE]

\* ----------------------------------------------------------- BackfillTable
\* a BackfillTablet that ignores the tablet's backfilled_until entry
BackfillTabletInit_FromStart(bu) ==
  [made |-> TRUE, next_row |-> EmptyKey, done |-> FALSE, chunk |-> FALSE]

\* BackfillTablet::BackfillTablet, on the tablet's backfilled_until entry
BackfillTabletInit(bu) ==
  [made |-> TRUE,
   next_row |-> IF bu # Absent THEN bu ELSE EmptyKey,
   done |-> bu # Absent /\ bu = EmptyKey,
   chunk |-> FALSE]

NoBackfillTablet ==
  [made |-> FALSE, next_row |-> EmptyKey, done |-> FALSE, chunk |-> FALSE]

\* a BackfillTable that ignores a persisted backfilling_timestamp
NewBackfillTable_NoAdoption(idx, t) ==
  [index |-> idx,
   alive |-> TRUE,
   schema_version |-> t.version,
   read_time |-> kInvalid,
   timestamp_chosen |-> FALSE,
   done |-> FALSE,
   num_tablets |-> 0,
   tablets_pending |-> 0,
   state |-> "kWaiting",
   spc |-> "none",
   apc |-> "none",
   gst |-> [tb \in Tablets |-> "none"],
   local_ts |-> [tb \in Tablets |-> kInvalid],
   bt |-> [tb \in Tablets |-> NoBackfillTablet],
   adopted |-> FALSE,
   persisted |-> kInvalid,
   leader_term |-> leader_ready_term]

\* BackfillTable::BackfillTable: the state read under LockForRead
NewBackfillTable(idx, t) ==
  [index |-> idx,
   alive |-> TRUE,
   schema_version |-> t.version,
   read_time |-> IF t.bts # kInvalid THEN t.bts ELSE kInvalid,
   timestamp_chosen |-> t.bts # kInvalid,
   done |-> FALSE,
   num_tablets |-> 0,
   tablets_pending |-> 0,
   state |-> "kWaiting",
   spc |-> "none",
   apc |-> "none",
   gst |-> [tb \in Tablets |-> "none"],
   local_ts |-> [tb \in Tablets |-> kInvalid],
   bt |-> [tb \in Tablets |-> NoBackfillTablet],
   adopted |-> t.bts # kInvalid,
   persisted |-> kInvalid,
   leader_term |-> leader_ready_term]

\* BackfillTableJob::SetState: a terminal state is never left
SetState(j, new_state) ==
  IF j.state \in {"kComplete", "kFailed", "kAborted"} THEN j
  ELSE [j EXCEPT !.state = new_state]

\* BackfillTable::LaunchBackfill, with BackfillTablet::Launch of every tablet:
\* a tablet that is already done reports BackfillTable::Done(OK) at once
LaunchBackfill(j, tabs) ==
  LET made == [tb \in Tablets |->
                 LET b == BackfillTabletInit(tabs[tb][j.index])
                 IN [b EXCEPT !.chunk = ~b.done]]
      ndone == Cardinality({tb \in Tablets : made[tb].done})
      pend == NumTablets - ndone
      fin == ~j.done /\ ndone > 0 /\ pend = 0
  IN [j EXCEPT !.num_tablets = NumTablets,
               !.tablets_pending = IF j.done THEN NumTablets ELSE pend,
               !.bt = made,
               !.done = j.done \/ fin,
               !.spc = IF fin THEN "perm" ELSE j.spc]

\* the BackfillIndex requests LaunchBackfill sends (BackfillChunk::SendRequest)
LaunchedChunks(jid, j) ==
  {[job |-> jid, tablet |-> tb, start_key |-> j.bt[tb].next_row,
    read_time |-> j.read_time] : tb \in {x \in Tablets : j.bt[x].chunk}}

\* BackfillTable::LaunchComputeSafeTimeForRead
LaunchComputeSafeTimeForRead(j) ==
  [j EXCEPT !.num_tablets = NumTablets,
            !.tablets_pending = NumTablets,
            !.gst = [tb \in Tablets |-> "sent"]]

\* a Launch that never waits for the safe-time election
Launch_NoElection(j, tabs) ==
  LaunchBackfill(SetState(j, "kRunning"), tabs)

\* BackfillTable::Launch
Launch(j, tabs) ==
  LET r == SetState(j, "kRunning")
  IN IF ~r.timestamp_chosen THEN LaunchComputeSafeTimeForRead(r)
     ELSE LaunchBackfill(r, tabs)

LiveJobs == {jid \in 1..Len(jobs) : jobs[jid].alive}

\* a BackfillTable with no task in flight and no finalizer running: nothing
\* holds its BackfillTablets and tasks any more
Quiescent(j) ==
  /\ \A tb \in Tablets : j.gst[tb] \in {"none", "done"} /\ ~j.bt[tb].chunk
  /\ j.spc \in {"none", "returned"}
  /\ j.apc \in {"none", "returned"}
Released(j) ==
  IF Quiescent(j)
  THEN [j EXCEPT !.gst = [tb \in Tablets |-> "none"],
                 !.local_ts = [tb \in Tablets |-> kInvalid],
                 !.bt = [tb \in Tablets |-> NoBackfillTablet]]
  ELSE j
PutJob(jid, j) == jobs' = [jobs EXCEPT ![jid] = Released(j)]

\* ------------------------------------------------------- rocksdb block
\* no BlockBuilder was constructed
NoBlock ==
  [interval |-> 0, num_entries |-> 0, restarts |-> << >>, counter |-> 0,
   finished |-> FALSE, middle |-> NotRead]

\* BlockBuilder::BlockBuilder(block_restart_interval): the first restart
\* point is entry 0
NewBlockBuilder(block_restart_interval) ==
  [interval |-> block_restart_interval, num_entries |-> 0, restarts |-> << 0 >>,
   counter |-> 0, finished |-> FALSE, middle |-> NotRead]

\* BlockBuilder::Add of the next key: a restart point every `interval` entries
BlockBuilderAdd(b) ==
  LET restart == b.counter >= b.interval
  IN [b EXCEPT !.restarts = IF restart THEN Append(b.restarts, b.num_entries) ELSE @,
               !.counter = (IF restart THEN 0 ELSE @) + 1,
               !.num_entries = @ + 1]

\* a GetMiddleKey that takes the restart point below the middle
GetMiddleKey_LowerMiddle(b) ==
  IF b.num_entries = 0 THEN Incomplete
  ELSE b.restarts[((Len(b.restarts) - 1) \div 2) + 1] + 1

\* Block::GetMiddleKey: Incomplete on an empty block, else the key of the
\* restart point NumRestarts() / 2; key "k<i>" is the number i
GetMiddleKey(b) ==
  IF b.num_entries = 0 THEN Incomplete
  ELSE b.restarts[(Len(b.restarts) \div 2) + 1] + 1

\* the helper GetMiddleKey(num_keys, block_restart_interval) of block_test,
\* one step at a time: the builder is constructed,
BlockNew(block_restart_interval) ==
  /\ block = NoBlock
  /\ block' = NewBlockBuilder(block_restart_interval)
  /\ UNCHANGED << table, disk_table, tablets, disk_tablets, is_backfilling,
                  index_tables, jobs, threads, chunks, gc_rpcs, alter_rpcs, task,
                  leader_ready_term >>

\* the keys "k<i>", i = 1..num_keys, are added in order,
BlockAdd ==
  /\ block # NoBlock
  /\ ~block.finished
  /\ block.num_entries < MaxNumKeys
  /\ block' = BlockBuilderAdd(block)
  /\ UNCHANGED << table, disk_table, tablets, disk_tablets, is_backfilling,
                  index_tables, jobs, threads, chunks, gc_rpcs, alter_rpcs, task,
                  leader_ready_term >>

\* builder.Finish() and Block reader(contents),
BlockFinish ==
  /\ block # NoBlock
  /\ ~block.finished
  /\ block' = [block EXCEPT !.finished = TRUE]
  /\ UNCHANGED << table, disk_table, tablets, disk_tablets, is_backfilling,
                  index_tables, jobs, threads, chunks, gc_rpcs, alter_rpcs, task,
                  leader_ready_term >>

\* reader.GetMiddleKey()
BlockGetMiddleKey ==
  /\ block.finished
  /\ block.middle = NotRead
  /\ block' = [block EXCEPT !.middle = GetMiddleKey(block)]
  /\ UNCHANGED << table, disk_table, tablets, disk_tablets, is_backfilling,
                  index_tables, jobs, threads, chunks, gc_rpcs, alter_rpcs, task,
                  leader_ready_term >>

\* ------------------------------------------------------------- RPC tasks
\* the codes of TabletServerErrorPB a response may carry; the first four end
\* the task, the others stand for every other code
FatalCodes == {"TABLET_NOT_FOUND", "MISMATCHED_SCHEMA", "TABLET_HAS_A_NEWER_SCHEMA",
               "OPERATION_NOT_SUPPORTED"}
ErrorCodes == FatalCodes \cup {"UNKNOWN_ERROR", "NOT_THE_LEADER"}
TaskKinds == {"GetSafeTimeForTablet", "BackfillChunk"}
TerminalStates == {"kComplete", "kFailed", "kAborted"}

\* resp_ as it is constructed: no error, safe_time 0, backfilled_until ""
NoResponse == [has_error |-> FALSE, code |-> "NONE", value |-> 0]

\* the responses a tablet server may give to a task of the kind: a safe time
\* or a next row key, or an error with one of the codes
Responses(kind) ==
  {[has_error |-> FALSE, code |-> "NONE", value |-> v] :
     v \in IF kind = "GetSafeTimeForTablet" THEN Times ELSE {EmptyKey} \cup Keys}
  \cup {[has_error |-> TRUE, code |-> c, value |-> 0] : c \in ErrorCodes}

NoTask ==
  [kind |-> "none", state |-> "kWaiting", attempt |-> 0, resp |-> NoResponse,
   pc |-> "none", reports |-> << >>]

\* TransitionToFailedState(kRunning, status) and TransitionToCompleteState:
\* the state moves only from the expected state kRunning
PerformStateTransition(state, expected, new_state) ==
  IF state = expected THEN new_state ELSE state

\* a HandleResponse that takes no error code as fatal
HandleResponse_AllRetryable(state, resp) ==
  IF resp.has_error THEN state
  ELSE PerformStateTransition(state, "kRunning", "kComplete")

\* GetSafeTimeForTablet::HandleResponse and BackfillChunk::HandleResponse:
\* the state of the task after a response
HandleResponse(state, resp) ==
  IF resp.has_error
  THEN IF resp.code \in FatalCodes
       THEN PerformStateTransition(state, "kRunning", "kFailed")
       ELSE state
  ELSE PerformStateTransition(state, "kRunning", "kComplete")

\* an UnregisterAsyncTaskCallback that does not look at the state of the task
UnregisterAsyncTaskCallback_NoStateTest(t) ==
  IF t.resp.has_error
  THEN [status |-> t.resp.code,
        value |-> IF t.kind = "GetSafeTimeForTablet" THEN kInvalid ELSE t.resp.value]
  ELSE [status |-> "OK", value |-> t.resp.value]

\* UnregisterAsyncTaskCallback: the status and the value the task hands to
\* UpdateSafeTime, respectively to BackfillTablet::Done.  The status of an
\* error response is named by its code.
UnregisterAsyncTaskCallback(t) ==
  IF t.resp.has_error
  THEN [status |-> t.resp.code,
        value |-> IF t.kind = "GetSafeTimeForTablet" THEN kInvalid ELSE t.resp.value]
  ELSE IF t.state # "kComplete"
  THEN [status |-> "InternalError",
        value |-> IF t.kind = "GetSafeTimeForTablet" THEN kInvalid ELSE t.resp.value]
  ELSE [status |-> "OK", value |-> t.resp.value]

\* Launch: the task is added to its table and Run sends the first request
TaskLaunch(kind) ==
  /\ task.pc \in {"none", "unregistered"}
  /\ task' = [NoTask EXCEPT !.kind = kind, !.state = "kRunning", !.attempt = 1,
                            !.pc = "sent"]
  /\ UNCHANGED << table, disk_table, tablets, disk_tablets, is_backfilling,
                  index_tables, jobs, threads, chunks, gc_rpcs, block, alter_rpcs,
                  leader_ready_term >>

\* the response of the tablet server is in resp_: HandleResponse(attempt)
TaskHandleResponse(resp) ==
  /\ task.pc = "sent"
  /\ resp \in Responses(task.kind)
  /\ task' = [task EXCEPT !.resp = resp, !.state = HandleResponse(task.state, resp),
                          !.pc = "handled"]
  /\ UNCHANGED << table, disk_table, tablets, disk_tablets, is_backfilling,
                  index_tables, jobs, threads, chunks, gc_rpcs, block, alter_rpcs,
                  leader_ready_term >>

\* the task is still running after its response and below its retry
\* ceiling: it is rescheduled and SendRequest(attempt + 1) runs
TaskRetry ==
  /\ task.pc = "handled"
  /\ task.state = "kRunning"
  /\ task.attempt < MaxAttempts
  /\ task' = [task EXCEPT !.attempt = @ + 1, !.pc = "sent"]
  /\ UNCHANGED << table, disk_table, tablets, disk_tablets, is_backfilling,
                  index_tables, jobs, threads, chunks, gc_rpcs, block, alter_rpcs,
                  leader_ready_term >>

\* the task is still running after its response and at its retry ceiling:
\* it fails
TaskOutOfRetries ==
  /\ task.pc = "handled"
  /\ task.state = "kRunning"
  /\ task.attempt >= MaxAttempts
  /\ task' = [task EXCEPT !.state = "kFailed"]
  /\ UNCHANGED << table, disk_table, tablets, disk_tablets, is_backfilling,
                  index_tables, jobs, threads, chunks, gc_rpcs, block, alter_rpcs,
                  leader_ready_term >>

\* Abort(status): a state that is not terminal becomes kAborted
TaskAbort ==
  /\ task.pc \in {"sent", "handled"}
  /\ task.state \notin TerminalStates
  /\ task' = [task EXCEPT !.state = "kAborted"]
  /\ UNCHANGED << table, disk_table, tablets, disk_tablets, is_backfilling,
                  index_tables, jobs, threads, chunks, gc_rpcs, block, alter_rpcs,
                  leader_ready_term >>

\* the task, in a terminal state, is unregistered:
\* UnregisterAsyncTaskCallback reports to UpdateSafeTime or BackfillTablet::Done
TaskUnregister ==
  /\ task.pc \in {"sent", "handled"}
  /\ task.state \in TerminalStates
  /\ task' = [task EXCEPT !.reports = Append(@, UnregisterAsyncTaskCallback(task)),
                          !.pc = "unregistered"]
  /\ UNCHANGED << table, disk_table, tablets, disk_tablets, is_backfilling,
                  index_tables, jobs, threads, chunks, gc_rpcs, block, alter_rpcs,
                  leader_ready_term >>

\* ----------------------------------------------------------------- Init
InitTable ==
  [version |-> 1, state |-> "ALTERING",
   perms |-> [i \in Indexes |-> IF i \in CreatedIndexes THEN "DELETE_ONLY" ELSE NoIndex],
   fa |-> NoSnapshot, bts |-> kInvalid]

Init ==
  /\ table = InitTable
  /\ disk_table = InitTable
  /\ tablets = [tb \in Tablets |-> [i \in Indexes |-> Absent]]
  /\ disk_tablets = tablets
  /\ is_backfilling = FALSE
  /\ index_tables = [i \in Indexes |-> [state |-> "ALTERING", is_backfilling |-> TRUE]]
  /\ jobs = << >>
  /\ threads = [th \in Threads |-> IdleThread]
  /\ chunks = {}
  /\ gc_rpcs = {}
  /\ block = NoBlock
  /\ alter_rpcs = {}
  /\ task = NoTask
  /\ leader_ready_term = 1

\* ------------------------------- LaunchNextTableInfoVersionIfNecessary
\* Every sys-catalog write (SysCatalogTable::UpdateItem / UpdateItems) is an
\* input `ok` of the step that makes it: TRUE when the row was written.

\* a call that goes on past a version that is not the table's and advances
\* what can be advanced
LN_Stale_NoVersionTest(th, v) ==
  /\ threads[th].pc = "idle"
  /\ v # table.version
  /\ threads' = [threads EXCEPT ![th] = [IdleThread EXCEPT !.stale = TRUE]]
  /\ table' = UpdateIndexPermission(table, UpdateMapping(table), NoGuard, TRUE).tbl
  /\ disk_table' = table'
  /\ alter_rpcs' = alter_rpcs \cup {table'.version}
  /\ UNCHANGED << block, leader_ready_term, task, tablets, disk_tablets, is_backfilling, index_tables,
                  jobs, chunks, gc_rpcs >>

\* A call whose version is not the table's returns OK under the read lock.
LN_Stale(th, v) ==
  /\ threads[th].pc = "idle"
  /\ v # table.version
  /\ threads' = [threads EXCEPT ![th] = [IdleThread EXCEPT !.stale = TRUE]]
  /\ UNCHANGED << block, leader_ready_term, task, alter_rpcs, table, disk_table, tablets, disk_tablets, is_backfilling,
                  index_tables, jobs, chunks, gc_rpcs >>

\* indexes_to_update is not empty: UpdateIndexPermission(indexes_to_update,
\* current_version), then SendAlterTableRequest.  The permissions of a table
\* change only together with its version and UpdateIndexPermission tests the
\* version again under the write lock, so the read-locked classification and
\* the update are taken as one step.
LN_Update(th, v, ok) ==
  /\ threads[th].pc = "idle"
  /\ v = table.version
  /\ IndexesToUpdate(table) # {}
  /\ \A i \in IndexesToUpdate(table) : NextPermission(table.perms[i]) # CheckFailed
  /\ LET r == UpdateIndexPermission(table, UpdateMapping(table), v, ok)
     IN /\ table' = r.tbl
        /\ disk_table' = IF r.status = "OK" THEN r.tbl ELSE disk_table
        /\ alter_rpcs' = IF r.status = "OK" THEN alter_rpcs \cup {r.tbl.version}
                         ELSE alter_rpcs
  /\ threads' = [threads EXCEPT ![th] = IdleThread]
  /\ UNCHANGED << block, leader_ready_term, task, tablets, disk_tablets, is_backfilling, index_tables,
                  jobs, chunks, gc_rpcs >>

\* the classification loop calls NextPermission on a permission without a
\* successor: CHECK(false) ends the process inside the call
LN_CheckFailed(th, v) ==
  /\ threads[th].pc = "idle"
  /\ v = table.version
  /\ \E i \in IndexesToUpdate(table) : NextPermission(table.perms[i]) = CheckFailed
  /\ threads' = [threads EXCEPT ![th] = [IdleThread EXCEPT !.pc = "check_failed", !.ver = v]]
  /\ UNCHANGED << block, leader_ready_term, task, alter_rpcs, table, disk_table, tablets, disk_tablets, is_backfilling,
                  index_tables, jobs, chunks, gc_rpcs >>

\* the block under LockForRead when there is nothing to advance: the caller
\* goes on to delete, to backfill or to clear with what it has read.  Callers
\* are interchangeable: a caller starts only when the ones before it are busy.
LN_Begin(th, v) ==
  /\ threads[th].pc = "idle"
  /\ \A other \in Threads : other < th => threads[other].pc # "idle"
  /\ v = table.version
  /\ IndexesToUpdate(table) = {}
  /\ threads' = [threads EXCEPT ![th] =
       [pc |-> "classified", ver |-> v, stale |-> FALSE,
        del |-> IF IndexesToDelete(table) = {} THEN 0 ELSE First(IndexesToDelete(table)),
        bf |-> IF IndexesToBackfill(table) = {} THEN 0 ELSE First(IndexesToBackfill(table))]]
  /\ UNCHANGED << block, leader_ready_term, task, alter_rpcs, table, disk_table, tablets, disk_tablets, is_backfilling, index_tables,
                  jobs, chunks, gc_rpcs >>

\* CatalogManager::DeleteIndexInfoFromTable: the index leaves the table's list
DeleteIndexInfo(t, idx) ==
  [SnapshotFullyApplied(t) EXCEPT
     !.perms = [t.perms EXCEPT ![idx] = NoIndex],
     !.version = t.version + 1,
     !.state = "ALTERING"]

\* ClearAlteringState(expected_version) on table row t with write outcome ok
ClearAlteringState(t, expected_version, ok) ==
  IF expected_version # t.version THEN [tbl |-> t, status |-> "AlreadyPresent"]
  ELSE IF ok THEN [tbl |-> ClearedAltering(t), status |-> "OK"]
  ELSE [tbl |-> t, status |-> "failed"]

\* DeleteIndexInfoFromTable(indexes_to_delete[0]); its status is only logged
LN_Delete(th, ok) ==
  /\ threads[th].pc = "classified"
  /\ threads[th].del # 0
  /\ table' = IF ok /\ table.perms[threads[th].del] # NoIndex
              THEN DeleteIndexInfo(table, threads[th].del) ELSE table
  /\ disk_table' = table'
  /\ threads' = [threads EXCEPT ![th].pc = "clear"]
  /\ UNCHANGED << block, leader_ready_term, task, alter_rpcs, tablets, disk_tablets, is_backfilling, index_tables,
                  jobs, chunks, gc_rpcs >>

\* ClearAlteringState(current_version) after the delete
LN_ClearAfterDelete(th, ok) ==
  /\ threads[th].pc = "clear"
  /\ LET r == ClearAlteringState(table, threads[th].ver, ok)
     IN /\ table' = r.tbl
        /\ disk_table' = IF r.status = "OK" THEN r.tbl ELSE disk_table
  /\ threads' = [threads EXCEPT ![th] = IdleThread]
  /\ UNCHANGED << block, leader_ready_term, task, alter_rpcs, tablets, disk_tablets, is_backfilling, index_tables,
                  jobs, chunks, gc_rpcs >>

\* nothing to advance, delete or backfill: ClearAlteringState(current_version)
LN_Clear(th, ok) ==
  /\ threads[th].pc = "classified"
  /\ threads[th].del = 0
  /\ threads[th].bf = 0
  /\ LET r == ClearAlteringState(table, threads[th].ver, ok)
     IN /\ table' = r.tbl
        /\ disk_table' = IF r.status = "OK" THEN r.tbl ELSE disk_table
  /\ threads' = [threads EXCEPT ![th] = IdleThread]
  /\ UNCHANGED << block, leader_ready_term, task, alter_rpcs, tablets, disk_tablets, is_backfilling, index_tables,
                  jobs, chunks, gc_rpcs >>

\* StartBackfillingData: the IsBackfilling() test at its head
LN_StartBackfill(th) ==
  /\ threads[th].pc = "classified"
  /\ threads[th].del = 0
  /\ threads[th].bf # 0
  /\ IF is_backfilling
     THEN threads' = [threads EXCEPT ![th] = IdleThread]
     ELSE threads' = [threads EXCEPT ![th].pc = "sb_start"]
  /\ UNCHANGED << block, leader_ready_term, task, alter_rpcs, table, disk_table, tablets, disk_tablets, is_backfilling, index_tables,
                  jobs, chunks, gc_rpcs >>

\* StartBackfillingData past the test: the fully_applied snapshot is written
\* under the write lock, then SetIsBackfilling(true),
\* make_shared<BackfillTable> and Launch()
SB_Start(th, ok, limit) ==
  /\ threads[th].pc = "sb_start"
  /\ Len(jobs) < limit
  /\ threads' = [threads EXCEPT ![th] = IdleThread]
  /\ IF ok
     THEN LET t1 == SnapshotFullyApplied(table)
              j == Launch(NewBackfillTable(threads[th].bf, t1), tablets)
          IN /\ table' = t1
             /\ disk_table' = t1
             /\ is_backfilling' = TRUE
             /\ jobs' = Append(jobs, Released(j))
             /\ chunks' = chunks \cup LaunchedChunks(Len(jobs) + 1, j)
     ELSE UNCHANGED << block, leader_ready_term, task, alter_rpcs, table, disk_table, is_backfilling, jobs, chunks >>
  /\ UNCHANGED << block, leader_ready_term, task, alter_rpcs, tablets, disk_tablets, index_tables, gc_rpcs >>

\* ------------------------------------------------ BackfillTable callbacks
\* UpdateSafeTime, its head: a failed status flips timestamp_chosen_ and the
\* first failure enters AlterTableStateToAbort; an OK status folds ht
\* into read_time_for_backfill_ under mutex_ and keeps the local copy
FoldSafeTime(j, tb, ok, ht) ==
  IF ~ok
  THEN [j EXCEPT !.gst[tb] = "done",
                 !.timestamp_chosen = TRUE,
                 !.apc = IF ~j.timestamp_chosen THEN "perm" ELSE j.apc]
  ELSE LET rt == MakeAtLeast(j.read_time, ht)
       IN [j EXCEPT !.gst[tb] = "folded", !.read_time = rt, !.local_ts[tb] = rt]

\* GetSafeTimeForTablet::UnregisterAsyncTaskCallback calling UpdateSafeTime
GST_Response(jid, tb, ok, ht) ==
  /\ jid \in LiveJobs
  /\ jobs[jid].gst[tb] = "sent"
  /\ PutJob(jid, FoldSafeTime(jobs[jid], tb, ok, ht))
  /\ UNCHANGED << block, leader_ready_term, task, alter_rpcs, table, disk_table, tablets, disk_tablets, is_backfilling, index_tables,
                  threads, chunks, gc_rpcs >>

\* the timestamp UpdateSafeTime writes as backfilling_timestamp: its local
\* read_timestamp, copied under mutex_ when this callback folded its time
TimestampToPersist(j, tb) == j.local_ts[tb]

\* UpdateSafeTime past the mutex, on a callback that does not take the
\* counter to zero: !timestamp_chosen() && --tablets_pending_ == 0 is false.
\* A failed callback never decrements, so this test and the flip of
\* timestamp_chosen_ by a failure commute and the test is one step.
UST_Count(jid, tb) ==
  /\ jid \in LiveJobs
  /\ jobs[jid].gst[tb] = "folded"
  /\ jobs[jid].timestamp_chosen \/ jobs[jid].tablets_pending - 1 # 0
  /\ PutJob(jid, [jobs[jid] EXCEPT
                    !.gst[tb] = "done",
                    !.local_ts[tb] = kInvalid,
                    !.tablets_pending = IF jobs[jid].timestamp_chosen THEN @ ELSE @ - 1])
  /\ UNCHANGED << block, leader_ready_term, task, alter_rpcs, table, disk_table, tablets, disk_tablets, is_backfilling, index_tables,
                  threads, chunks, gc_rpcs >>

\* UpdateSafeTime past the mutex, on the callback that takes the counter to
\* zero: backfilling_timestamp is written, timestamp_chosen_ is stored and
\* LaunchBackfill runs; a failed write returns before both
UST_Elect(jid, tb, ok) ==
  /\ jid \in LiveJobs
  /\ jobs[jid].gst[tb] = "folded"
  /\ ~jobs[jid].timestamp_chosen
  /\ jobs[jid].tablets_pending - 1 = 0
  /\ LET j == jobs[jid]
         ts == TimestampToPersist(j, tb)
         j1 == [j EXCEPT !.gst[tb] = "done", !.local_ts[tb] = kInvalid,
                         !.tablets_pending = 0]
         j2 == LaunchBackfill([j1 EXCEPT !.timestamp_chosen = TRUE, !.persisted = ts],
                              tablets)
     IN IF ok
        THEN /\ table' = [table EXCEPT !.bts = ts]
             /\ disk_table' = table'
             /\ PutJob(jid, j2)
             /\ chunks' = chunks \cup LaunchedChunks(jid, j2)
        ELSE /\ PutJob(jid, j1)
             /\ UNCHANGED << block, leader_ready_term, task, alter_rpcs, table, disk_table, chunks >>
  /\ UNCHANGED << block, leader_ready_term, task, alter_rpcs, tablets, disk_tablets, is_backfilling, index_tables,
                  threads, gc_rpcs >>

\* the next_row_key a tablet server may answer to a chunk that started at `from`
NextRowKeys(from) == {EmptyKey} \cup {k \in Keys : k > from}

\* a Done(failed status) that enters AlterTableStateToAbort on every failure
JobDoneFailed_EveryFailure(j) ==
  [j EXCEPT !.done = TRUE, !.apc = "perm"]

\* BackfillTable::Done(failed status): done_.exchange(true), the first failure
\* enters AlterTableStateToAbort
JobDoneFailed(j) ==
  [j EXCEPT !.done = TRUE, !.apc = IF ~j.done THEN "perm" ELSE j.apc]

\* a Done(OK) that counts the tablet but never enters AlterTableStateToSuccess
JobDoneOk_NoSuccess(j) ==
  IF j.done THEN j ELSE [j EXCEPT !.tablets_pending = j.tablets_pending - 1]

\* BackfillTable::Done(OK): !done() && --tablets_pending_ == 0 stores done_
\* and enters AlterTableStateToSuccess.  A failed tablet never decrements, so
\* the counter reaches zero only when no tablet failed.
JobDoneOk(j) ==
  IF j.done THEN j
  ELSE LET p == j.tablets_pending - 1
       IN [j EXCEPT !.tablets_pending = p,
                    !.done = p = 0,
                    !.spc = IF p = 0 THEN "perm" ELSE j.spc]

\* a failed BackfillTablet::Done that keeps its failure from the job
TabletDoneFailed_NoReport(j, tb) ==
  [j EXCEPT !.bt[tb].chunk = FALSE]

\* BackfillTablet::Done with a failed status
TabletDoneFailed(j, tb) ==
  JobDoneFailed([j EXCEPT !.bt[tb].chunk = FALSE])

\* BackfillTablet::Done with an OK status: the cursor moves, the last chunk
\* sets done_, then LaunchNextChunkOrDone
TabletDoneOk(j, tb, next) ==
  IF next = EmptyKey
  THEN JobDoneOk([j EXCEPT !.bt[tb].next_row = next, !.bt[tb].done = TRUE,
                           !.bt[tb].chunk = FALSE])
  ELSE [j EXCEPT !.bt[tb].next_row = next]

\* BackfillChunk::UnregisterAsyncTaskCallback with an error
Chunk_Failed(jid, tb) ==
  /\ jid \in LiveJobs
  /\ jobs[jid].bt[tb].chunk
  /\ PutJob(jid, TabletDoneFailed(jobs[jid], tb))
  /\ UNCHANGED << block, leader_ready_term, task, alter_rpcs, table, disk_table, tablets, disk_tablets, is_backfilling, index_tables,
                  threads, chunks, gc_rpcs >>

\* BackfillChunk::UnregisterAsyncTaskCallback with resp_.backfilled_until =
\* next: BackfillTablet::Done inserts the checkpoint into the dirty copy,
\* writes the tablet row (a failed write is only logged) and commits
Chunk_Done(jid, tb, next, ok) ==
  /\ jid \in LiveJobs
  /\ jobs[jid].bt[tb].chunk
  /\ next \in NextRowKeys(jobs[jid].bt[tb].next_row)
  /\ LET dirty == MapInsert(tablets[tb], jobs[jid].index, next)
         j1 == TabletDoneOk(jobs[jid], tb, next)
     IN /\ tablets' = [tablets EXCEPT ![tb] = dirty]
        /\ disk_tablets' = IF ok THEN [disk_tablets EXCEPT ![tb] = dirty]
                           ELSE disk_tablets
        /\ PutJob(jid, j1)
        /\ chunks' = IF j1.bt[tb].chunk
                     THEN chunks \cup {[job |-> jid, tablet |-> tb, start_key |-> next,
                                        read_time |-> j1.read_time]}
                     ELSE chunks
  /\ UNCHANGED << block, leader_ready_term, task, alter_rpcs, table, disk_table, is_backfilling, index_tables, threads, gc_rpcs >>

\* ------------------------------------------------------------ finalizers
OnePermission(idx, perm) == [i \in Indexes |-> IF i = idx THEN perm ELSE NoIndex]

\* AlterTableStateToSuccess: UpdateIndexPermission(READ_WRITE_AND_DELETE,
\* boost::none) and SendAlterTableRequest
Succ_Perm(jid, ok) ==
  /\ jid \in LiveJobs
  /\ jobs[jid].spc = "perm"
  /\ LET r == UpdateIndexPermission(
                table, OnePermission(jobs[jid].index, "READ_WRITE_AND_DELETE"), NoGuard, ok)
     IN /\ table' = r.tbl
        /\ disk_table' = IF r.status = "OK" THEN r.tbl ELSE disk_table
        /\ alter_rpcs' = IF r.status = "OK" THEN alter_rpcs \cup {r.tbl.version}
                         ELSE alter_rpcs
  /\ PutJob(jid, [jobs[jid] EXCEPT !.spc = IF ok THEN "gc" ELSE "returned"])
  /\ UNCHANGED << block, leader_ready_term, task, tablets, disk_tablets, is_backfilling, index_tables,
                  threads, chunks, gc_rpcs >>

\* AllowCompactionsToGCDeleteMarkers: wait for the index table to be RUNNING,
\* write is_backfilling = false on it, send BackfillDone to its tablets
Succ_GC(jid, ok) ==
  /\ jid \in LiveJobs
  /\ jobs[jid].spc = "gc"
  /\ index_tables[jobs[jid].index].state = "RUNNING"
  /\ index_tables' = IF ok THEN [index_tables EXCEPT ![jobs[jid].index].is_backfilling = FALSE]
                     ELSE index_tables
  /\ gc_rpcs' = IF ok THEN gc_rpcs \cup {jobs[jid].index} ELSE gc_rpcs
  /\ PutJob(jid, [jobs[jid] EXCEPT !.spc = IF ok THEN "flag" ELSE "returned"])
  /\ UNCHANGED << block, leader_ready_term, task, alter_rpcs, table, disk_table, tablets, disk_tablets, is_backfilling,
                  threads, chunks >>

\* AlterTableStateToSuccess: SetIsBackfilling(false)
Succ_Flag(jid) ==
  /\ jid \in LiveJobs
  /\ jobs[jid].spc = "flag"
  /\ is_backfilling' = FALSE
  /\ PutJob(jid, [jobs[jid] EXCEPT !.spc = "state"])
  /\ UNCHANGED << block, leader_ready_term, task, alter_rpcs, table, disk_table, tablets, disk_tablets, index_tables,
                  threads, chunks, gc_rpcs >>

\* AlterTableStateToSuccess: backfill_job_->SetState(kComplete)
Succ_State(jid) ==
  /\ jid \in LiveJobs
  /\ jobs[jid].spc = "state"
  /\ PutJob(jid, [SetState(jobs[jid], "kComplete") EXCEPT !.spc = "clear_tablets"])
  /\ UNCHANGED << block, leader_ready_term, task, alter_rpcs, table, disk_table, tablets, disk_tablets, is_backfilling,
                  index_tables, threads, chunks, gc_rpcs >>

\* AlterTableStateToAbort: UpdateIndexPermission(WRITE_AND_DELETE_WHILE_REMOVING,
\* boost::none), SendAlterTableRequest, SetIsBackfilling(false)
Abort_Perm(jid, ok) ==
  /\ jid \in LiveJobs
  /\ jobs[jid].apc = "perm"
  /\ LET r == UpdateIndexPermission(
                table, OnePermission(jobs[jid].index, "WRITE_AND_DELETE_WHILE_REMOVING"),
                NoGuard, ok)
     IN /\ table' = r.tbl
        /\ disk_table' = IF r.status = "OK" THEN r.tbl ELSE disk_table
        /\ alter_rpcs' = IF r.status = "OK" THEN alter_rpcs \cup {r.tbl.version}
                         ELSE alter_rpcs
  /\ is_backfilling' = IF ok THEN FALSE ELSE is_backfilling
  /\ PutJob(jid, [jobs[jid] EXCEPT !.apc = IF ok THEN "state" ELSE "returned"])
  /\ UNCHANGED << block, leader_ready_term, task, tablets, disk_tablets, index_tables, threads, chunks, gc_rpcs >>

\* AlterTableStateToAbort: backfill_job_->SetState(kFailed)
Abort_State(jid) ==
  /\ jid \in LiveJobs
  /\ jobs[jid].apc = "state"
  /\ PutJob(jid, [SetState(jobs[jid], "kFailed") EXCEPT !.apc = "clear_tablets"])
  /\ UNCHANGED << block, leader_ready_term, task, alter_rpcs, table, disk_table, tablets, disk_tablets, is_backfilling,
                  index_tables, threads, chunks, gc_rpcs >>

\* ClearCheckpointStateInTablets: backfilled_until[index] erased on every
\* tablet, written with one UpdateItems and committed when it succeeded
Clear_Tablets(jid, fin, ok) ==
  /\ jid \in LiveJobs
  /\ jobs[jid][fin] = "clear_tablets"
  /\ LET dirty == [tb \in Tablets |-> MapErase(tablets[tb], jobs[jid].index)]
     IN /\ tablets' = IF ok THEN dirty ELSE tablets
        /\ disk_tablets' = IF ok THEN dirty ELSE disk_tablets
  /\ PutJob(jid, [jobs[jid] EXCEPT ![fin] = IF ok THEN "clear_ts" ELSE "returned"])
  /\ UNCHANGED << block, leader_ready_term, task, alter_rpcs, table, disk_table, is_backfilling, index_tables,
                  threads, chunks, gc_rpcs >>

\* ClearCheckpointStateInTablets: clear_backfilling_timestamp on the table
Clear_Timestamp(jid, fin, ok) ==
  /\ jid \in LiveJobs
  /\ jobs[jid][fin] = "clear_ts"
  /\ table' = IF ok THEN [table EXCEPT !.bts = kInvalid] ELSE table
  /\ disk_table' = table'
  /\ PutJob(jid, [jobs[jid] EXCEPT ![fin] = "returned"])
  /\ UNCHANGED << block, leader_ready_term, task, alter_rpcs, tablets, disk_tablets, is_backfilling, index_tables,
                  threads, chunks, gc_rpcs >>

\* BackfillTableJob::AbortAndReturnPrevState: a state that is not terminal
\* becomes kAborted; nothing else of the BackfillTable is touched
Job_Abort(jid) ==
  /\ jid \in LiveJobs
  /\ jobs[jid].state \notin {"kComplete", "kFailed", "kAborted"}
  /\ PutJob(jid, [jobs[jid] EXCEPT !.state = "kAborted"])
  /\ UNCHANGED << block, leader_ready_term, task, alter_rpcs, table, disk_table, tablets, disk_tablets, is_backfilling,
                  index_tables, threads, chunks, gc_rpcs >>

\* ----------------------------------------------------------- environment
\* this master loses the leadership and has it again at a later term; its
\* BackfillTable objects and their callbacks live on
TermChange ==
  /\ leader_ready_term < MaxTerm
  /\ leader_ready_term' = leader_ready_term + 1
  /\ UNCHANGED << block, task, alter_rpcs, table, disk_table, tablets, disk_tablets,
                  is_backfilling, index_tables, jobs, threads, chunks, gc_rpcs >>

\* the term a write of BackfillTable jid is issued with: leader_term(), but
\* UpdateIndexPermission takes catalog_manager->leader_ready_term()
JobTerm(jid) == jobs[jid].leader_term
PermissionTerm == leader_ready_term

\* a sys-catalog write issued with the term succeeds on the leader of that term
Accepted(term) == term = leader_ready_term

\* the alter of the index table completes on its tablets; only the poll of
\* AllowCompactionsToGCDeleteMarkers reads the state
IndexTableRunning(i) ==
  /\ index_tables[i].state = "ALTERING"
  /\ \E jid \in LiveJobs : jobs[jid].index = i /\ jobs[jid].spc = "gc"
  /\ index_tables' = [index_tables EXCEPT ![i].state = "RUNNING"]
  /\ UNCHANGED << block, leader_ready_term, task, alter_rpcs, table, disk_table, tablets, disk_tablets, is_backfilling,
                  jobs, threads, chunks, gc_rpcs >>

\* what is left of a BackfillTable when its process is killed: its history
Killed(j) ==
  [NewBackfillTable(j.index, InitTable) EXCEPT
     !.alive = FALSE, !.adopted = j.adopted, !.persisted = j.persisted]

\* the master is killed and a master loads the sys catalog: every in-memory
\* object is gone, the rows are the persisted ones
Restart ==
  /\ table' = disk_table
  /\ tablets' = disk_tablets
  /\ is_backfilling' = FALSE
  /\ jobs' = [jid \in 1..Len(jobs) |-> Killed(jobs[jid])]
  /\ threads' = [th \in Threads |-> IdleThread]
  /\ UNCHANGED << block, leader_ready_term, task, alter_rpcs, disk_table, disk_tablets, index_tables, chunks, gc_rpcs >>

\* ------------------------------------------------------- specifications
JobIds == 1..MaxJobs
Versions(t) == {v \in {t.version - 1, t.version} : v >= 1}

\* the alter-table driver, called by the threads of Callers
Driver(Callers, Writes, limit) ==
  \/ \E th \in Callers, v \in Versions(table) : LN_Stale(th, v)
  \/ \E th \in Callers, v \in Versions(table), ok \in Writes : LN_Update(th, v, ok)
  \/ \E th \in Callers, v \in Versions(table) : LN_Begin(th, v)
  \/ \E th \in Callers : LN_StartBackfill(th)
  \/ \E th \in Callers, ok \in Writes : SB_Start(th, ok, limit)
  \/ \E th \in Callers, ok \in Writes : LN_Clear(th, ok)

\* the removal of an aborted index by the driver
Removal(Callers, Writes) ==
  \/ \E th \in Callers, ok \in Writes : LN_Delete(th, ok)
  \/ \E th \in Callers, ok \in Writes : LN_ClearAfterDelete(th, ok)

\* a backfill in which every tablet server answers without error
Backfill(Writes, SafeTimes, NextRows) ==
  \/ \E jid \in JobIds, tb \in Tablets, ht \in SafeTimes : GST_Response(jid, tb, TRUE, ht)
  \/ \E jid \in JobIds, tb \in Tablets : UST_Count(jid, tb)
  \/ \E jid \in JobIds, tb \in Tablets, ok \in Writes : UST_Elect(jid, tb, ok)
  \/ \E jid \in JobIds, tb \in Tablets, next \in NextRows, ok \in Writes :
       Chunk_Done(jid, tb, next, ok)
  \/ \E jid \in JobIds, ok \in Writes : Succ_Perm(jid, ok)
  \/ \E jid \in JobIds, ok \in Writes : Succ_GC(jid, ok)
  \/ \E jid \in JobIds : Succ_Flag(jid)
  \/ \E jid \in JobIds : Succ_State(jid)
  \/ \E jid \in JobIds, ok \in Writes : Clear_Tablets(jid, "spc", ok)
  \/ \E jid \in JobIds, ok \in Writes : Clear_Timestamp(jid, "spc", ok)
  \/ \E i \in Indexes : IndexTableRunning(i)

\* the failures of tablet servers and the abort they lead to
Failures(Writes) ==
  \/ \E jid \in JobIds, tb \in Tablets : GST_Response(jid, tb, FALSE, kInvalid)
  \/ \E jid \in JobIds, tb \in Tablets : Chunk_Failed(jid, tb)
  \/ \E jid \in JobIds, ok \in Writes : Abort_Perm(jid, ok)
  \/ \E jid \in JobIds : Abort_State(jid)
  \/ \E jid \in JobIds, ok \in Writes : Clear_Tablets(jid, "apc", ok)
  \/ \E jid \in JobIds, ok \in Writes : Clear_Timestamp(jid, "apc", ok)

\* one master, one caller of the driver and one backfill, every failure of a
\* tablet server and of a sys-catalog write
Next ==
  \/ Driver({1}, BOOLEAN, SingleJob)
  \/ Removal({1}, BOOLEAN)
  \/ Backfill(BOOLEAN, Times, {EmptyKey} \cup Keys)
  \/ Failures(BOOLEAN)

Spec == Init /\ [][Next]_vars

\* two concurrent callers of the driver; tablet servers answer and sys-catalog
\* writes succeed
NextRace ==
  \/ Driver(Threads, {TRUE}, MaxJobs)
  \/ Backfill({TRUE}, {MaxTime}, {EmptyKey})

SpecRace == Init /\ [][NextRace]_vars

\* one caller of the driver that may be overtaken by the backfill it raced
\* with; tablet servers may fail
NextRelaunch ==
  \/ Driver({1}, {TRUE}, MaxJobs)
  \/ Removal({1}, {TRUE})
  \/ Backfill({TRUE}, {MaxTime}, {EmptyKey})
  \/ Failures({TRUE})

SpecRelaunch == Init /\ [][NextRelaunch]_vars

\* master fail-over; tablet servers answer and sys-catalog writes succeed
NextFailover ==
  \/ Driver({1}, {TRUE}, MaxJobs)
  \/ Backfill({TRUE}, Times, {EmptyKey} \cup Keys)
  \/ Restart

SpecFailover == Init /\ [][NextFailover]_vars

\* the happy path: every GetSafeTime and BackfillIndex request is answered
\* with success, every sys-catalog write succeeds, the index table becomes
\* RUNNING and the thread of a callback or finalizer runs on
HappyPath == Backfill({TRUE}, Times, {EmptyKey} \cup Keys)
NextLive ==
  \/ Driver({1}, {TRUE}, MaxJobs)
  \/ HappyPath

SpecLive == Init /\ [][NextLive]_vars /\ WF_vars(HappyPath)

\* an indexed table that holds no rows: every BackfillIndex request is
\* answered with backfilled_until = "", nothing fails
NextEmpty ==
  \/ Driver({1}, {TRUE}, SingleJob)
  \/ Backfill({TRUE}, Times, {EmptyKey})

SpecEmpty == Init /\ [][NextEmpty]_vars

\* the driver on a table with two indexes, each one anywhere on its path:
\* the permissions a call may find, one caller, no backfill step
ClassifyPerms == (Permissions \ {"NOT_USED"}) \cup {NoIndex}
InitClassify ==
  /\ table \in {[InitTable EXCEPT !.perms = p] : p \in [Indexes -> ClassifyPerms]}
  /\ disk_table = table
  /\ tablets = [tb \in Tablets |-> [i \in Indexes |-> Absent]]
  /\ disk_tablets = tablets
  /\ is_backfilling = FALSE
  /\ index_tables = [i \in Indexes |-> [state |-> "ALTERING", is_backfilling |-> TRUE]]
  /\ jobs = << >>
  /\ threads = [th \in Threads |-> IdleThread]
  /\ chunks = {}
  /\ gc_rpcs = {}
  /\ block = NoBlock
  /\ alter_rpcs = {}
  /\ task = NoTask
  /\ leader_ready_term = 1

NextClassify ==
  \/ Driver({1}, BOOLEAN, SingleJob)
  \/ Removal({1}, BOOLEAN)

SpecClassify == InitClassify /\ [][NextClassify]_vars

\* the driver on a table with two indexes, each with any value of
\* IndexPermissions: one caller, no backfill step
InitAnyPermission ==
  /\ table \in {[InitTable EXCEPT !.perms = p] : p \in [Indexes -> Permissions \cup {NoIndex}]}
  /\ disk_table = table
  /\ tablets = [tb \in Tablets |-> [i \in Indexes |-> Absent]]
  /\ disk_tablets = tablets
  /\ is_backfilling = FALSE
  /\ index_tables = [i \in Indexes |-> [state |-> "ALTERING", is_backfilling |-> TRUE]]
  /\ jobs = << >>
  /\ threads = [th \in Threads |-> IdleThread]
  /\ chunks = {}
  /\ gc_rpcs = {}
  /\ block = NoBlock
  /\ alter_rpcs = {}
  /\ task = NoTask
  /\ leader_ready_term = 1

NextAnyPermission ==
  \/ Driver({1}, {TRUE}, SingleJob)
  \/ Removal({1}, {TRUE})
  \/ \E v \in Versions(table) : LN_CheckFailed(1, v)

SpecAnyPermission == InitAnyPermission /\ [][NextAnyPermission]_vars

\* block_test: blocks of 0..MaxNumKeys keys under every restart interval
NextBlock ==
  \/ \E i \in 1..MaxRestartInterval : BlockNew(i)
  \/ BlockAdd
  \/ BlockFinish
  \/ BlockGetMiddleKey

SpecBlock == Init /\ [][NextBlock]_vars

\* a backfill whose BackfillTableJob may be aborted at any time; tablet
\* servers may fail, sys-catalog writes succeed
NextCancel ==
  \/ Driver({1}, {TRUE}, SingleJob)
  \/ Backfill({TRUE}, {MaxTime}, {EmptyKey})
  \/ Failures({TRUE})
  \/ \E jid \in JobIds : Job_Abort(jid)

SpecCancel == Init /\ [][NextCancel]_vars

\* two indexes created together on one indexed table: the driver takes both
\* to DO_BACKFILL and backfills them one after the other; nothing fails
InitTwoIndexes ==
  /\ table = [InitTable EXCEPT !.perms = [i \in Indexes |-> "DELETE_ONLY"]]
  /\ disk_table = table
  /\ tablets = [tb \in Tablets |-> [i \in Indexes |-> Absent]]
  /\ disk_tablets = tablets
  /\ is_backfilling = FALSE
  /\ index_tables = [i \in Indexes |-> [state |-> "ALTERING", is_backfilling |-> TRUE]]
  /\ jobs = << >>
  /\ threads = [th \in Threads |-> IdleThread]
  /\ chunks = {}
  /\ gc_rpcs = {}
  /\ block = NoBlock
  /\ alter_rpcs = {}
  /\ task = NoTask
  /\ leader_ready_term = 1

NextTwoIndexes ==
  \/ Driver({1}, {TRUE}, MaxJobs)
  \/ Backfill({TRUE}, {MaxTime}, {EmptyKey})

SpecTwoIndexes == InitTwoIndexes /\ [][NextTwoIndexes]_vars

\* one backfill in which tablet servers may fail while the chunks of other
\* tablets are in flight; sys-catalog writes succeed
NextStraggler ==
  \/ Driver({1}, {TRUE}, SingleJob)
  \/ Backfill({TRUE}, {MaxTime}, {EmptyKey} \cup Keys)
  \/ Failures({TRUE})

SpecStraggler == Init /\ [][NextStraggler]_vars

\* one master that stays leader: every request to a tablet server is
\* answered, with or without error, every sys-catalog write returns, with or
\* without error, and the thread of a callback or finalizer runs on
JobSteps == Backfill(BOOLEAN, Times, {EmptyKey} \cup Keys) \/ Failures(BOOLEAN)
SpecGiveUp == Init /\ [][Next]_vars /\ WF_vars(JobSteps)

\* a backfill across changes of the leader term: each sys-catalog write of a
\* job succeeds exactly when the term it is issued with is the current one;
\* tablet servers may fail
BackfillAtTerm ==
  \/ \E jid \in JobIds, tb \in Tablets : GST_Response(jid, tb, TRUE, MaxTime)
  \/ \E jid \in JobIds, tb \in Tablets : UST_Count(jid, tb)
  \/ \E jid \in LiveJobs, tb \in Tablets : UST_Elect(jid, tb, Accepted(JobTerm(jid)))
  \/ \E jid \in LiveJobs, tb \in Tablets :
       Chunk_Done(jid, tb, EmptyKey, Accepted(JobTerm(jid)))
  \/ \E jid \in JobIds, tb \in Tablets : Chunk_Failed(jid, tb)
  \/ \E jid \in JobIds : Succ_Perm(jid, Accepted(PermissionTerm))
  \/ \E jid \in LiveJobs : Succ_GC(jid, Accepted(JobTerm(jid)))
  \/ \E jid \in JobIds : Succ_Flag(jid)
  \/ \E jid \in JobIds : Succ_State(jid)
  \/ \E jid \in JobIds : Abort_Perm(jid, Accepted(PermissionTerm))
  \/ \E jid \in JobIds : Abort_State(jid)
  \/ \E jid \in LiveJobs, fin \in {"spc", "apc"} :
       Clear_Tablets(jid, fin, Accepted(JobTerm(jid)))
  \/ \E jid \in LiveJobs, fin \in {"spc", "apc"} :
       Clear_Timestamp(jid, fin, Accepted(JobTerm(jid)))
  \/ \E i \in Indexes : IndexTableRunning(i)

NextTerm ==
  \/ Driver({1}, {TRUE}, SingleJob)
  \/ BackfillAtTerm
  \/ TermChange

SpecTerm == Init /\ [][NextTerm]_vars

\* one RPC task after the other, of either kind: every response a tablet
\* server may give, retries up to the ceiling, Abort at any time
NextTask ==
  \/ \E kind \in TaskKinds : TaskLaunch(kind)
  \/ \E resp \in Responses(task.kind) : TaskHandleResponse(resp)
  \/ TaskRetry
  \/ TaskOutOfRetries
  \/ TaskAbort
  \/ TaskUnregister

SpecTask == Init /\ [][NextTask]_vars

\* ---------------------------------------------------------------- claims
\* a BackfillTable that still has a task in flight or a finalizer running
Building(jid) == jid \in LiveJobs /\ ~Quiescent(jobs[jid])

\* C1: single-builder.  Under every interleaving of concurrent callers of
\* LaunchNextTableInfoVersionIfNecessary at most one BackfillTable is
\* constructed and launched for the base table at a time: of two callers that
\* reach StartBackfillingData one returns AlreadyPresent.
C1_SingleBuilder ==
  Cardinality({jid \in 1..Len(jobs) : Building(jid)}) <= 1

\* the edges of the permission graph; an index may also be removed
PermissionGraph ==
  { << "DELETE_ONLY", "WRITE_AND_DELETE" >>,
    << "WRITE_AND_DELETE", "DO_BACKFILL" >>,
    << "DO_BACKFILL", "READ_WRITE_AND_DELETE" >>,
    << "DO_BACKFILL", "WRITE_AND_DELETE_WHILE_REMOVING" >>,
    << "WRITE_AND_DELETE_WHILE_REMOVING", "DELETE_ONLY_WHILE_REMOVING" >>,
    << "DELETE_ONLY_WHILE_REMOVING", "INDEX_UNUSED" >> }
PermissionStep(p, q) ==
  \/ p = q
  \/ q = NoIndex
  \/ << p, q >> \in PermissionGraph

\* C2: for every index the permissions of successive persisted base-table
\* rows follow the permission graph: no back-edge, no skipped node, and
\* READ_WRITE_AND_DELETE and INDEX_UNUSED are never left except by removal.
C2_PermissionPath ==
  [][\A i \in Indexes : PermissionStep(disk_table.perms[i], disk_table'.perms[i])]_vars

\* C3: when the GetSafeTime tasks of all tablets succeeded, the value written
\* as backfilling_timestamp is the maximum of the reported times, which is
\* what read_time_for_backfill_ holds once every callback has folded its time.
C3_ElectedIsMax ==
  \A jid \in LiveJobs :
    jobs[jid].persisted # kInvalid => jobs[jid].persisted = jobs[jid].read_time

\* C4: timestamp immutability.  Once a BackfillTable has written
\* backfilling_timestamp = T, every BackfillIndex request it sends carries
\* read_at_hybrid_time = T.
C4_ChunksReadAtPersisted ==
  \A c \in chunks :
    jobs[c.job].persisted # kInvalid => c.read_time = jobs[c.job].persisted

\* C5: resumability of the read snapshot.  The BackfillIndex requests of a
\* BackfillTable built after a restart carry the read time that the requests
\* of the killed BackfillTable of the same index carried.
C5_ResumedReadTime ==
  \A c1 \in chunks, c2 \in chunks :
    /\ ~jobs[c1.job].alive
    /\ jobs[c2.job].alive
    /\ jobs[c1.job].index = jobs[c2.job].index
    => c1.read_time = c2.read_time

\* C6: whenever a BackfillTable is in state kComplete, the persisted base
\* table row has no backfilling_timestamp and no persisted tablet row has a
\* backfilled_until entry for its index.
C6_CompleteIsClean ==
  \A jid \in 1..Len(jobs) :
    jobs[jid].state = "kComplete" =>
      /\ disk_table.bts = kInvalid
      /\ \A tb \in Tablets : disk_tablets[tb][jobs[jid].index] = Absent

\* C7: a BackfillTable built on a base table whose persisted properties hold
\* a valid backfilling_timestamp adopts it with timestamp_chosen set, and its
\* Launch sends no GetSafeTime request and runs LaunchBackfill; built without
\* the property it starts with an invalid read time and Launch sends the
\* GetSafeTime requests and no BackfillIndex request.
C7_AdoptOrElect ==
  [][Len(jobs') > Len(jobs) =>
       LET jid == Len(jobs')
           j == jobs'[jid]
       IN IF disk_table.bts # kInvalid
          THEN /\ j.read_time = disk_table.bts
               /\ j.timestamp_chosen
               /\ \A tb \in Tablets : j.gst[tb] = "none" /\ j.bt[tb].made
          ELSE /\ j.read_time = kInvalid
               /\ ~j.timestamp_chosen
               /\ \A tb \in Tablets : j.gst[tb] = "sent" /\ ~j.bt[tb].made
               /\ \A c \in chunks' : c.job # jid]_vars

\* a BackfillTable that adopted a persisted timestamp has a chunk in flight
C7_Witness ==
  \E jid \in LiveJobs :
    /\ jobs[jid].adopted
    /\ jobs[jid].read_time = disk_table.bts
    /\ \E tb \in Tablets : jobs[jid].bt[tb].chunk

\* the BackfillIndex requests a step adds for tablet tb of BackfillTable jid
NewChunks(jid, tb) == {c \in chunks' \ chunks : c.job = jid /\ c.tablet = tb}
\* LaunchBackfill of BackfillTable jid builds its BackfillTablets in this step
Launches(jid) ==
  /\ jid <= Len(jobs')
  /\ \E tb \in Tablets : jobs'[jid].bt[tb].made
  /\ jid <= Len(jobs) => \A tb \in Tablets : ~jobs[jid].bt[tb].made

\* C8: a BackfillTablet starts from the tablet's backfilled_until entry of the
\* index: absent, its first BackfillIndex request has an empty start key; a
\* non-empty key, its first request starts at that key; present and empty,
\* the tablet is reported done to the BackfillTable and no request is sent.
C8_ResumeFromCheckpoint ==
  [][\A jid \in JobIds : Launches(jid) =>
       /\ \A tb \in Tablets :
            LET bu == tablets[tb][jobs'[jid].index]
                b == jobs'[jid].bt[tb]
            IN IF bu = Absent \/ bu # EmptyKey
               THEN /\ b.chunk /\ ~b.done
                    /\ NewChunks(jid, tb) # {}
                    /\ \A c \in NewChunks(jid, tb) :
                         c.start_key = IF bu = Absent THEN EmptyKey ELSE bu
               ELSE /\ ~b.chunk /\ b.done
                    /\ NewChunks(jid, tb) = {}
       /\ jobs'[jid].tablets_pending =
            Cardinality({tb \in Tablets : tablets[tb][jobs'[jid].index] # EmptyKey})]_vars

\* a resumed BackfillTable found one tablet finished, which got no request,
\* and one tablet with a non-empty checkpoint, whose request starts there
C8_Witness ==
  \E jid \in LiveJobs, t1 \in Tablets, t2 \in Tablets :
    /\ jobs[jid].adopted
    /\ jobs[jid].bt[t1].made /\ jobs[jid].bt[t1].done
    /\ \A c \in chunks : ~(c.job = jid /\ c.tablet = t1)
    /\ jobs[jid].bt[t2].chunk
    /\ tablets[t2][jobs[jid].index] \in Keys
    /\ \A c \in chunks : c.job = jid /\ c.tablet = t2
                           => c.start_key = tablets[t2][jobs[jid].index]

\* C9: the values written to the persisted backfilled_until entry of a tablet
\* during a backfill increase strictly in key order, and the last value
\* written is the empty key exactly when the tablet has finished its scan:
\* an answered chunk leaves its next row key in the persisted entry, above
\* the key that was there, and the chunk that ends the scan leaves it empty.
C9_CheckpointFollowsScan ==
  [][\A jid \in JobIds, tb \in Tablets :
       (jid \in LiveJobs /\ jobs'[jid].alive
        /\ jobs[jid].bt[tb].made /\ jobs'[jid].bt[tb].made) =>
         LET b == jobs[jid].bt[tb]
             a == jobs'[jid].bt[tb]
             before == disk_tablets[tb][jobs[jid].index]
             after == disk_tablets'[tb][jobs[jid].index]
         IN /\ (a.next_row # b.next_row /\ a.next_row # EmptyKey) =>
                 after = a.next_row /\ (before = Absent \/ before < after)
            /\ (a.done /\ ~b.done) => after = EmptyKey]_vars

\* C10: no BackfillIndex request is sent by a BackfillTable before its read
\* timestamp is settled: the BackfillTable adopted a persisted
\* backfilling_timestamp when it was built, or every tablet's GetSafeTime
\* response was folded and counted and the elected timestamp was written.
C10_SettledBeforeChunks ==
  \A jid \in 1..Len(jobs) :
    ((\E c \in chunks : c.job = jid) \/ (\E tb \in Tablets : jobs[jid].bt[tb].made)) =>
      /\ jobs[jid].adopted \/ jobs[jid].persisted # kInvalid
      /\ jobs[jid].alive =>
           /\ jobs[jid].timestamp_chosen
           /\ \A tb \in Tablets : jobs[jid].gst[tb] \notin {"sent", "folded"}

\* a BackfillTable that elected and wrote its timestamp has sent a request
C10_Witness ==
  \E c \in chunks :
    /\ jobs[c.job].alive
    /\ ~jobs[c.job].adopted
    /\ jobs[c.job].persisted # kInvalid
    /\ jobs[c.job].bt[c.tablet].chunk

\* the end of a successful backfill of BackfillTable jid
HappyEnd(jid) ==
  LET idx == jobs[jid].index
  IN /\ jobs[jid].state = "kComplete"
     /\ table.perms[idx] = "READ_WRITE_AND_DELETE"
     /\ disk_table.perms[idx] = "READ_WRITE_AND_DELETE"
     /\ ~is_backfilling
     /\ table.bts = kInvalid /\ disk_table.bts = kInvalid
     /\ \A tb \in Tablets : tablets[tb][idx] = Absent /\ disk_tablets[tb][idx] = Absent
     /\ idx \in gc_rpcs
     /\ ~index_tables[idx].is_backfilling

\* C11: liveness of the happy path.  When every GetSafeTime and BackfillIndex
\* request succeeds, every sys-catalog write succeeds and the index table
\* becomes RUNNING, a launched BackfillTable eventually is kComplete with the
\* index READ_WRITE_AND_DELETE, is_backfilling false, backfilling_timestamp
\* and every backfilled_until entry erased and BackfillDone sent to the
\* tablets of the index table.
C11_HappyPathCompletes ==
  \A jid \in JobIds :
    (jid \in LiveJobs /\ jobs[jid].state = "kRunning") ~> (jid \in LiveJobs /\ HappyEnd(jid))

\* a BackfillTable has completed and left everything clean
C11_Witness ==
  \E jid \in LiveJobs : HappyEnd(jid) /\ \E c \in chunks : c.job = jid

\* a failed BackfillIndex response was reported to BackfillTable jid: done_
\* is set and AlterTableStateToSuccess was never entered
ChunkFailureReported(jid) == jobs[jid].done /\ jobs[jid].spc = "none"
\* the permissions of an index that is being removed, and the removed index
RemovalSide ==
  { "WRITE_AND_DELETE_WHILE_REMOVING", "DELETE_ONLY_WHILE_REMOVING", "INDEX_UNUSED", NoIndex }

\* C12: once a BackfillIndex failure was reported to a BackfillTable, the
\* index is never READ_WRITE_AND_DELETE, BackfillDone is never sent to the
\* tablets of its index table, and the abort leaves the index on the
\* removal side, from WRITE_AND_DELETE_WHILE_REMOVING on, with the job kFailed.
C12_ChunkFailureAborts ==
  \A jid \in LiveJobs :
    ChunkFailureReported(jid) =>
      LET idx == jobs[jid].index
      IN /\ table.perms[idx] # "READ_WRITE_AND_DELETE"
         /\ disk_table.perms[idx] # "READ_WRITE_AND_DELETE"
         /\ idx \notin gc_rpcs
         /\ jobs[jid].state # "kComplete"
         /\ jobs[jid].apc \in {"clear_tablets", "clear_ts"} =>
              jobs[jid].state = "kFailed" /\ disk_table.perms[idx] \in RemovalSide

\* the step an alter-table cycle takes with an index that is being removed
RemovalNext(p) ==
  CASE p = "WRITE_AND_DELETE_WHILE_REMOVING" -> "DELETE_ONLY_WHILE_REMOVING"
    [] p = "DELETE_ONLY_WHILE_REMOVING" -> "INDEX_UNUSED"
    [] p = "INDEX_UNUSED" -> NoIndex

\* C13: after an abort left an index in WRITE_AND_DELETE_WHILE_REMOVING, the
\* calls of LaunchNextTableInfoVersionIfNecessary take it to
\* DELETE_ONLY_WHILE_REMOVING, then to INDEX_UNUSED, then out of the base
\* table, one step per committed version: whenever the persisted permission
\* of an index that is being removed changes, it changes to the next of
\* these, in a row whose version is the next one.
C13_RemovalDescends ==
  [][\A i \in Indexes :
       (disk_table.perms[i] \in RemovalSide \ {NoIndex}
        /\ disk_table'.perms[i] # disk_table.perms[i]) =>
         /\ disk_table'.perms[i] = RemovalNext(disk_table.perms[i])
         /\ disk_table'.version = disk_table.version + 1]_vars

\* a failed GetSafeTime response was reported to BackfillTable j: its abort
\* was entered and no BackfillIndex failure set done_
SafeTimeFailureReported(j) == j.apc # "none" /\ ~j.done

\* C14: when a GetSafeTime task of a BackfillTable reports a failure then,
\* whatever the order of the other tablets' responses, the job enters
\* AlterTableStateToAbort once, which writes WRITE_AND_DELETE_WHILE_REMOVING
\* and leaves the job kFailed, the job never writes backfilling_timestamp
\* and never sends a BackfillIndex request.
C14_SafeTimeFailureAborts ==
  [][\A jid \in JobIds :
       (jid <= Len(jobs') /\ jobs'[jid].alive /\ SafeTimeFailureReported(jobs'[jid])) =>
         LET j == jobs'[jid]
         IN /\ j.persisted = kInvalid /\ ~j.adopted
            /\ j.timestamp_chosen
            /\ \A c \in chunks' : c.job # jid
            /\ \A tb \in Tablets : ~j.bt[tb].made
            /\ j.spc = "none" /\ j.state # "kComplete"
            /\ j.apc \in {"clear_tablets", "clear_ts"} => j.state = "kFailed"
            /\ (jid <= Len(jobs) /\ j.apc = "perm") => jobs[jid].apc \in {"none", "perm"}
            /\ (jid <= Len(jobs) /\ jobs[jid].apc = "perm" /\ j.apc = "state") =>
                 disk_table'.perms[j.index] = "WRITE_AND_DELETE_WHILE_REMOVING"]_vars

\* a BackfillTable whose backfill_job_ is in a state that is not terminal
NonTerminal(j) == j.alive /\ j.state \notin {"kComplete", "kFailed", "kAborted"}

\* C15: is_backfilling of the indexed table brackets the life of its backfill
\* job: it is true when a BackfillTable is constructed, true in every state
\* in which a job of the table is not terminal, and it goes back to false
\* only when every job of the table has reached a terminal state.
C15_FlagBracketsJob ==
  [][/\ Len(jobs') > Len(jobs) => is_backfilling'
     /\ \A jid \in 1..Len(jobs') : NonTerminal(jobs'[jid]) => is_backfilling'
     /\ (is_backfilling /\ ~is_backfilling') =>
          \A jid \in 1..Len(jobs) : ~NonTerminal(jobs[jid])]_vars

\* the call of caller th is a repeat: a call with its version has already
\* launched a BackfillTable, or has already cleared the altering state
RepeatedBackfill(th) ==
  \E jid \in 1..Len(jobs) : jobs[jid].schema_version = threads[th].ver
RepeatedClear(th) ==
  threads[th].ver = table.version /\ table.state = "RUNNING"

\* C16: LaunchNextTableInfoVersionIfNecessary(table, v) is idempotent: a call
\* with the version of a call that has returned changes neither the table
\* nor its tablets, in memory or in the sys-catalog, and starts no
\* BackfillTable and no request: StartBackfillingData is turned down or
\* ClearAlteringState writes the state that is already there.
C16_LaunchNextIdempotent ==
  [][\A th \in Threads :
       /\ (threads[th].pc \in {"classified", "sb_start"} /\ threads'[th] # threads[th]
            /\ threads[th].bf # 0 /\ RepeatedBackfill(th)) =>
              /\ Len(jobs') = Len(jobs)
              /\ chunks' = chunks
              /\ UNCHANGED << table, disk_table, tablets, disk_tablets, is_backfilling >>
       /\ (threads[th].pc = "classified" /\ threads'[th].pc = "idle"
            /\ threads[th].del = 0 /\ threads[th].bf = 0 /\ RepeatedClear(th)) =>
              UNCHANGED << table, disk_table, tablets, disk_tablets, is_backfilling,
                           index_tables, jobs, chunks, gc_rpcs >>]_vars

\* C17: on an indexed table that holds no rows a BackfillTable still sends
\* GetSafeTime to every tablet, the timestamp it elects and writes is the
\* greatest safe time the tablets answered, and no BackfillIndex request is
\* sent before AlterTableStateToSuccess runs.
C17_EmptyTableNoChunks ==
  \A jid \in LiveJobs :
    LET j == jobs[jid]
    IN /\ (j.state = "kRunning" /\ ~j.timestamp_chosen) =>
            j.num_tablets = NumTablets /\ \A tb \in Tablets : j.gst[tb] # "none"
       /\ j.persisted # kInvalid =>
            \A tb \in Tablets : j.local_ts[tb] # kInvalid => j.persisted >= j.local_ts[tb]
       /\ j.persisted # kInvalid => j.persisted = j.read_time
       /\ j.spc = "none" => \A c \in chunks : c.job # jid

\* a block of n keys built with restart interval 1 whose middle key was read
MiddleKeyRead(n) ==
  block.interval = 1 /\ block.num_entries = n /\ block.middle # NotRead

\* the smallest integer that is at least n / 2
CeilHalf(n) == (n + 1) \div 2

\* C18: Block::GetMiddleKey fails with Incomplete on a block without
\* entries; on a block of n >= 1 sorted entries built with restart interval 1
\* it returns the entry at 1-based index ceil(n/2), which gives 1 for n = 1,
\* 2 for n = 2, 2 for n = 3, 8 for n = 15 and 9 for n = 16.
C18_MiddleKeyCeil ==
  /\ MiddleKeyRead(0) => block.middle = Incomplete
  /\ \A n \in 1..MaxNumKeys : MiddleKeyRead(n) => block.middle = CeilHalf(n)
  /\ MiddleKeyRead(1) => block.middle = 1
  /\ MiddleKeyRead(2) => block.middle = 2
  /\ MiddleKeyRead(3) => block.middle = 2
  /\ MiddleKeyRead(15) => block.middle = 8
  /\ MiddleKeyRead(16) => block.middle = 9

\* C18, amended: Block::GetMiddleKey fails with Incomplete on a block
\* without entries; on a block of n >= 1 sorted entries built with restart
\* interval 1 it returns the entry at 1-based index floor(n/2) + 1, which
\* gives 1 for n = 1, 2 for n = 2, 2 for n = 3, 8 for n = 15 and 9 for n = 16.
C18_MiddleKeyFloor ==
  /\ MiddleKeyRead(0) => block.middle = Incomplete
  /\ \A n \in 1..MaxNumKeys : MiddleKeyRead(n) => block.middle = (n \div 2) + 1
  /\ MiddleKeyRead(1) => block.middle = 1
  /\ MiddleKeyRead(2) => block.middle = 2
  /\ MiddleKeyRead(3) => block.middle = 2
  /\ MiddleKeyRead(15) => block.middle = 8
  /\ MiddleKeyRead(16) => block.middle = 9

\* the middle key of a block of 16 keys with restart interval 1 was read
C18_Witness == MiddleKeyRead(16) /\ block.middle = 9

\* C19: a call of LaunchNextTableInfoVersionIfNecessary with a version that
\* is not the table's returns OK and changes nothing: no permission, version,
\* table state, fully_applied snapshot or is_backfilling flag, in memory or
\* in the sys catalog, and it starts no job, no index deletion and no request.
C19_StaleCallChangesNothing ==
  [][\A th \in Threads :
       (threads[th].pc = "idle" /\ ~threads[th].stale /\ threads'[th].stale) =>
         /\ threads'[th].pc = "idle"
         /\ \A other \in Threads \ {th} : threads'[other] = threads[other]
         /\ UNCHANGED << table, disk_table, tablets, disk_tablets, is_backfilling,
                         index_tables, jobs, chunks, gc_rpcs >>]_vars

\* a call with an old version has returned while a backfill was running
C19_Witness ==
  \E th \in Threads :
    /\ threads[th].stale
    /\ is_backfilling
    /\ \E jid \in LiveJobs : jobs[jid].state = "kRunning"

\* a permission the driver advances by itself
Advanceable(perm) ==
  perm \in {"DELETE_ONLY", "WRITE_AND_DELETE",
            "WRITE_AND_DELETE_WHILE_REMOVING", "DELETE_ONLY_WHILE_REMOVING"}
\* the first index, in declaration order, with permission perm; 0 when none
FirstWith(t, perm) ==
  IF \E i \in Indexes : t.perms[i] = perm
  THEN CHOOSE i \in Indexes :
         t.perms[i] = perm /\ \A k \in Indexes : t.perms[k] = perm => i <= k
  ELSE 0
\* the step takes no part of a delete or of a backfill
NoJobNoRequest ==
  UNCHANGED << tablets, disk_tablets, is_backfilling, index_tables, jobs, chunks, gc_rpcs >>

C21_NextPermissionDefined ==
  \A th \in Threads :
    /\ threads[th].pc # "check_failed"
    /\ threads[th].pc # "idle" =>
         \A i \in IndexesToUpdate(table) : Advanceable(table.perms[i])

\* the perm_mapping arguments of UpdateIndexPermission: NoIndex for an index
\* the mapping does not name
Mappings == [Indexes -> Permissions \cup {NoIndex}]
\* the current_version arguments: boost::none, the version, its neighbours
Guards(t) == {NoGuard} \cup {v \in {t.version - 1, t.version, t.version + 1} : v >= 1}

\* what UpdateIndexPermission(mapping, guard) makes of table row t when its
\* write succeeds
UpdatedAsSpecified(t, mapping, guard) ==
  LET r == UpdateIndexPermission(t, mapping, guard, TRUE)
  IN IF guard # NoGuard /\ guard # t.version
     THEN r.status = "AlreadyPresent" /\ r.tbl = t
     ELSE /\ r.status = "OK"
          /\ r.tbl.fa = [version |-> t.version, perms |-> t.perms]
          /\ \A i \in Indexes :
               r.tbl.perms[i] = IF mapping[i] # NoIndex /\ t.perms[i] # NoIndex
                                THEN mapping[i] ELSE t.perms[i]
          /\ r.tbl.version = t.version + 1
          /\ r.tbl.state = "ALTERING"
          /\ r.tbl.bts = t.bts

\* C22: a successful UpdateIndexPermission(mapping, guard) sets the
\* fully_applied snapshot to what the table had before the call, sets the
\* permission of the indexes the mapping names and of no other, adds one to
\* the schema version and sets the state ALTERING; with a guard that is not
\* the table's version it returns AlreadyPresent and changes nothing.  So the
\* persisted schema version never decreases and a persisted permission
\* changes only together with a version that grows by one.
C22_UpdateIndexPermission ==
  [][/\ \A mapping \in Mappings, guard \in Guards(table) :
          UpdatedAsSpecified(table, mapping, guard)
     /\ disk_table'.version >= disk_table.version
     /\ disk_table'.perms # disk_table.perms =>
          disk_table'.version = disk_table.version + 1
     /\ table'.perms # table.perms => table'.version = table.version + 1]_vars

\* UpdateIndexPermission has advanced one index of the table and left the
\* other index, which the mapping did not name, as it was
C22_Witness ==
  /\ table.state = "ALTERING"
  /\ table.fa.version = table.version - 1
  /\ \E i, k \in Indexes :
       /\ table.fa.perms[i] # table.perms[i] /\ table.perms[i] # NoIndex
       /\ table.fa.perms[k] = table.perms[k] /\ table.perms[k] # NoIndex
  /\ disk_table = table

\* what ClearAlteringState(expected_version) makes of table row t when its
\* write succeeds
ClearedAsSpecified(t, expected_version) ==
  LET r == ClearAlteringState(t, expected_version, TRUE)
  IN IF expected_version = t.version
     THEN /\ r.status = "OK"
          /\ r.tbl.fa = NoSnapshot
          /\ r.tbl.state = "RUNNING"
          /\ r.tbl.version = t.version
          /\ r.tbl.perms = t.perms
          /\ r.tbl.bts = t.bts
     ELSE r.status = "AlreadyPresent" /\ r.tbl = t

\* C23: ClearAlteringState(v) on a table at version v erases the
\* fully_applied snapshot and sets the state RUNNING, the schema version and
\* the permissions of all indexes stay; on a table at another version it
\* returns AlreadyPresent and the table is left as it is.
C23_ClearAlteringState ==
  [][/\ \A v \in Guards(table) \ {NoGuard} : ClearedAsSpecified(table, v)
     /\ \A th \in Threads :
          LET t == threads[th]
          IN (threads'[th] # t
              /\ (t.pc = "clear" \/ (t.pc = "classified" /\ t.del = 0 /\ t.bf = 0))) =>
               /\ disk_table' = table'
               /\ IF t.ver = table.version
                  THEN table' \in {table, [table EXCEPT !.fa = NoSnapshot, !.state = "RUNNING"]}
                  ELSE table' = table]_vars

\* ClearAlteringState has cleared a table that an earlier version change
\* had left ALTERING with a fully_applied snapshot
C23_Witness ==
  /\ table.state = "RUNNING"
  /\ table.fa = NoSnapshot
  /\ table.version > 1
  /\ disk_table = table

\* C24: a sys-catalog write that fails inside UpdateIndexPermission,
\* ClearAlteringState or StartBackfillingData leaves the committed in-memory
\* row of the indexed table as it was: the row in memory changes only to what
\* was written.  SendAlterTableRequest follows only an UpdateIndexPermission
\* that wrote, and broadcasts the version it wrote.  A StartBackfillingData
\* whose write fails leaves is_backfilling false and constructs no job.
FailedWriteKeepsRow(t) ==
  /\ \A mapping \in Mappings, guard \in Guards(t) :
       LET r == UpdateIndexPermission(t, mapping, guard, FALSE)
       IN r.tbl = t /\ r.status # "OK"
  /\ \A v \in Guards(t) \ {NoGuard} :
       LET r == ClearAlteringState(t, v, FALSE)
       IN r.tbl = t /\ r.status # "OK"
C24_FailedWriteCommitsNothing ==
  [][/\ FailedWriteKeepsRow(table)
     /\ table' # table => disk_table' = table'
     /\ alter_rpcs' # alter_rpcs =>
          /\ disk_table' # disk_table
          /\ disk_table' = table'
          /\ alter_rpcs' = alter_rpcs \cup {table'.version}
     /\ \A th \in Threads :
          (threads[th].pc = "sb_start" /\ threads'[th] # threads[th]) =>
            IF disk_table' # disk_table
            THEN /\ table' = disk_table'
                 /\ table'.fa = [version |-> table.version, perms |-> table.perms]
                 /\ is_backfilling'
                 /\ Len(jobs') = Len(jobs) + 1
            ELSE /\ table' = table
                 /\ ~is_backfilling'
                 /\ jobs' = jobs]_vars

\* AlterTableStateToSuccess has returned on a failed UpdateIndexPermission:
\* the index is still at DO_BACKFILL, in memory as on disk
C24_Witness ==
  \E jid \in 1..Len(jobs) :
    /\ jobs[jid].spc = "returned"
    /\ table.perms[jobs[jid].index] = "DO_BACKFILL"
    /\ disk_table.perms[jobs[jid].index] = "DO_BACKFILL"

\* the step from BackfillTable j to k is a failed BackfillTablet::Done of
\* tablet tb, taken before done_ was set
FirstFailure(j, k, tb) ==
  ~j.done /\ j.bt[tb].chunk /\ ~k.bt[tb].chunk /\ ~k.bt[tb].done

\* the step from BackfillTable j to k is the successful BackfillTablet::Done
\* that leaves every tablet done, taken before done_ was set
LastSuccess(j, k) ==
  /\ ~j.done
  /\ \E tb \in Tablets : j.bt[tb].chunk /\ k.bt[tb].done
  /\ \A tb \in Tablets : k.bt[tb].done

\* C25: in the backfill phase of a job, whatever the order of the tablets'
\* Done callbacks, a finalizer is entered by one callback only:
\* AlterTableStateToAbort by the first failure and by no later one,
\* AlterTableStateToSuccess by the success that leaves every tablet done.
\* A finalizer that was entered is never entered again, and no job enters
\* both.
C25_OneFinalizerOnce ==
  [][/\ \A jid \in 1..Len(jobs') :
          ~(jobs'[jid].spc # "none" /\ jobs'[jid].apc # "none")
     /\ \A jid \in 1..Len(jobs) :
          LET j == jobs[jid]
              k == jobs'[jid]
          IN /\ j.spc # "none" => k.spc # "none" /\ (k.spc = "perm" => j.spc = "perm")
             /\ j.apc # "none" => k.apc # "none" /\ (k.apc = "perm" => j.apc = "perm")
             /\ (j.spc = "none" /\ k.spc # "none") =>
                  k.spc = "perm" /\ k.done /\ k.tablets_pending = 0 /\ LastSuccess(j, k)
             /\ (j.apc = "none" /\ k.apc # "none" /\ \E tb \in Tablets : j.bt[tb].made) =>
                  k.apc = "perm" /\ k.done /\ \E tb \in Tablets : FirstFailure(j, k, tb)
             /\ (\E tb \in Tablets : FirstFailure(j, k, tb)) => k.apc = "perm" /\ k.done
             /\ LastSuccess(j, k) => k.spc = "perm" /\ k.done]_vars

\* one tablet reported success, another one failure: the abort is entered
C25_Witness ==
  \E jid \in LiveJobs :
    /\ jobs[jid].apc = "perm"
    /\ \E tb \in Tablets : jobs[jid].bt[tb].done
    /\ \E tb \in Tablets : jobs[jid].bt[tb].made /\ ~jobs[jid].bt[tb].done

\* C26: every answered chunk whose checkpoint write succeeds leaves the next
\* row key of its response in the persisted backfilled_until entry of the
\* tablet, whether or not the tablet already had an entry for the index; the
\* chunk that ends the scan leaves the entry present and empty.
C26_CheckpointIsNextRowKey ==
  [][\A jid \in JobIds, tb \in Tablets :
       (jid \in LiveJobs /\ jobs'[jid].alive
        /\ jobs[jid].bt[tb].chunk /\ jobs'[jid].bt[tb].made
        /\ (jobs'[jid].bt[tb].next_row # jobs[jid].bt[tb].next_row
            \/ jobs'[jid].bt[tb].done)) =>
         disk_tablets'[tb][jobs[jid].index] = jobs'[jid].bt[tb].next_row]_vars

\* the BackfillIndex requests of job jid to tablet tb
ChunksOf(cs, jid, tb) == {c \in cs : c.job = jid /\ c.tablet = tb}

\* C27: the next BackfillIndex request of a tablet, or the tablet's
\* Done(OK) to its job, follows only a checkpoint that was written: the
\* persisted row of the tablet has the backfilled_until entry its committed
\* in-memory row has.  After a checkpoint write that failed the job sends
\* no further request to the tablet.
C27_PersistBeforeNextChunk ==
  [][\A jid \in JobIds, tb \in Tablets :
       (jid \in LiveJobs /\ jobs'[jid].alive /\ jobs[jid].bt[tb].chunk
        /\ (ChunksOf(chunks', jid, tb) # ChunksOf(chunks, jid, tb)
            \/ (jobs'[jid].bt[tb].done /\ ~jobs[jid].bt[tb].done))) =>
         /\ disk_tablets'[tb][jobs[jid].index] # Absent
         /\ disk_tablets'[tb][jobs[jid].index] = tablets'[tb][jobs[jid].index]]_vars

\* tablet record b of a BackfillTable has had a chunk fail: it is made, has
\* no request in flight and is not done
ChunkFailed(b) == b.made /\ ~b.chunk /\ ~b.done

\* C28: when a BackfillChunk reports a failure to its BackfillTablet, the
\* cursor next_row_to_backfill_ of the tablet and the backfilled_until
\* entries of its row, in memory and persisted, stay as they were, the
\* failure reaches BackfillTable::Done with the effect of one call (done_
\* is set, the abort is entered if it was not, no tablet is counted), and
\* no request is sent to the tablet by this job from then on.
C28_ChunkFailureFrame ==
  [][\A jid \in 1..Len(jobs), tb \in Tablets :
       LET j == jobs[jid]
           k == jobs'[jid]
       IN /\ (j.bt[tb].chunk /\ ChunkFailed(k.bt[tb])) =>
               /\ k.bt[tb].next_row = j.bt[tb].next_row
               /\ tablets' = tablets
               /\ disk_tablets' = disk_tablets
               /\ chunks' = chunks
               /\ k.done
               /\ k.apc = IF j.done THEN j.apc ELSE "perm"
               /\ k.spc = j.spc
               /\ k.tablets_pending = j.tablets_pending
          /\ ChunkFailed(j.bt[tb]) =>
               /\ ~k.bt[tb].chunk
               /\ ChunksOf(chunks', jid, tb) = ChunksOf(chunks, jid, tb)
               /\ k.bt[tb].made => k.bt[tb] = j.bt[tb]]_vars

\* the second chunk of a tablet failed: its cursor stays at the key the first
\* chunk returned
C28_Witness ==
  \E jid \in LiveJobs, tb \in Tablets :
    /\ ChunkFailed(jobs[jid].bt[tb])
    /\ jobs[jid].bt[tb].next_row # EmptyKey
    /\ jobs[jid].done

\* C29: a response with TABLET_NOT_FOUND, MISMATCHED_SCHEMA,
\* TABLET_HAS_A_NEWER_SCHEMA or OPERATION_NOT_SUPPORTED takes a running
\* GetSafeTimeForTablet or BackfillChunk task to kFailed on that attempt,
\* and a task that is kFailed sends no request again; a response with
\* another error code leaves the task kRunning, and below the retry ceiling
\* its next step is the next request, unless it is aborted; a response
\* without error takes the task to kComplete.
C29_FatalCodesEndTheTask ==
  [][/\ (task.pc = "sent" /\ task'.pc = "handled" /\ task.state = "kRunning") =>
          /\ task'.attempt = task.attempt
          /\ task'.state =
               IF task'.resp.has_error /\ task'.resp.code \in FatalCodes THEN "kFailed"
               ELSE IF task'.resp.has_error THEN "kRunning"
               ELSE "kComplete"
     /\ (task.pc = "handled" /\ task'.pc = "sent") =>
          /\ task.state = "kRunning"
          /\ task.resp.has_error /\ task.resp.code \notin FatalCodes
          /\ task'.attempt = task.attempt + 1
     /\ (task.pc = "handled" /\ task.state = "kRunning" /\ task.attempt < MaxAttempts) =>
          \/ task'.pc = "sent" /\ task'.state = "kRunning"
          \/ task' = [task EXCEPT !.state = "kAborted"]
     /\ (task.pc = "handled" /\ task.state \in TerminalStates) =>
          task'.pc = "unregistered" /\ task'.state = task.state]_vars

\* a retried task has met a fatal code on its second request
C29_Witness ==
  /\ task.pc = "handled"
  /\ task.state = "kFailed"
  /\ task.attempt > 1
  /\ task.resp.code \in FatalCodes

\* C30: a task that is unregistered reports to its parent once: the error of
\* its last response if that carries one, else InternalError if its state is
\* not kComplete, else success with the safe time, respectively the next
\* row key, of the response.
C30_OneReportOnUnregister ==
  [][/\ Len(task'.reports) = IF task'.pc = "unregistered" THEN 1 ELSE 0
     /\ (task.pc # "unregistered" /\ task'.pc = "unregistered") =>
          LET r == task'.reports[1]
          IN /\ task.state \in TerminalStates
             /\ IF task.resp.has_error
                THEN r.status = task.resp.code
                ELSE IF task.state # "kComplete"
                THEN r.status = "InternalError"
                ELSE r.status = "OK" /\ r.value = task.resp.value
     /\ (task.pc = "unregistered" /\ task' # task) =>
          task'.pc = "sent" /\ task'.attempt = 1]_vars

\* a task that was aborted before any response has reported InternalError
C30_Witness ==
  /\ task.pc = "unregistered"
  /\ task.state = "kAborted"
  /\ ~task.resp.has_error
  /\ task.reports[1].status = "InternalError"

\* C31: BackfillDone requests go to the tablets of an index table only in
\* a step that found READ_WRITE_AND_DELETE of the index persisted on the
\* indexed table and the index table RUNNING, and that wrote
\* is_backfilling = false on the index table; a job polls the index table
\* only after its permission write, and the step that writes the flag sends
\* the requests to the tablets of the index table.
C31_GCAfterPermissionAndRunning ==
  [][/\ \A i \in Indexes :
          (i \in gc_rpcs' /\ i \notin gc_rpcs) =>
            /\ disk_table.perms[i] = "READ_WRITE_AND_DELETE"
            /\ alter_rpcs # {}
            /\ index_tables[i].state = "RUNNING"
            /\ index_tables[i].is_backfilling
            /\ ~index_tables'[i].is_backfilling
            /\ gc_rpcs' = gc_rpcs \cup {i}
     /\ \A i \in Indexes :
          (index_tables[i].is_backfilling /\ ~index_tables'[i].is_backfilling) =>
            i \in gc_rpcs'
     /\ \A jid \in 1..Len(jobs') :
          jobs'[jid].spc \in {"gc", "flag"} =>
            disk_table'.perms[jobs'[jid].index] = "READ_WRITE_AND_DELETE"]_vars

\* C32: aborting a BackfillTableJob moves its state from a state that is not
\* terminal to kAborted, a terminal state is never left, and the abort
\* reaches the backfill: a job that was aborted does not enter
\* AlterTableStateToSuccess, and while it is aborted READ_WRITE_AND_DELETE is
\* never written for its index.
C32_AbortedJobNeverPromotes ==
  [][\A jid \in 1..Len(jobs) :
       LET j == jobs[jid]
           k == jobs'[jid]
       IN /\ j.state \in {"kComplete", "kFailed", "kAborted"} => k.state = j.state
          /\ (j.state # k.state /\ k.state = "kAborted") =>
               k = [j EXCEPT !.state = "kAborted"]
          /\ (j.state = "kAborted" /\ j.spc = "none") => k.spc = "none"
          /\ (j.state = "kAborted"
              /\ disk_table'.perms[j.index] = "READ_WRITE_AND_DELETE") =>
               disk_table.perms[j.index] = "READ_WRITE_AND_DELETE"]_vars

\* C33: every sys-catalog write a BackfillTable makes is issued with the
\* leader term it captured when it was constructed: once the term of the
\* master has changed, no step of the job changes a persisted row of the
\* indexed table or of a tablet.
C33_JobWritesAtCapturedTerm ==
  [][\A jid \in 1..Len(jobs) :
       (jobs'[jid] # jobs[jid] /\ jobs[jid].leader_term # leader_ready_term) =>
         /\ disk_table' = disk_table
         /\ disk_tablets' = disk_tablets
         /\ index_tables' = index_tables]_vars

\* C34: a change of a row is committed in memory only after its write
\* succeeded: the committed row of the indexed table and the committed row
\* of every tablet, backfilled_until included, are the rows last written.
C34_MemoryIsPersisted ==
  /\ table = disk_table
  /\ \A tb \in Tablets : tablets[tb] = disk_tablets[tb]

\* C35: a BackfillTable never runs at a read time that was elected for
\* another index of the indexed table: a BackfillTable that adopts a
\* persisted backfilling_timestamp is built for an index for which an
\* earlier BackfillTable elected and wrote a timestamp.
C35_TimestampOfOwnIndex ==
  [][Len(jobs') > Len(jobs) =>
       LET k == jobs'[Len(jobs')]
       IN k.adopted =>
            \E jid \in 1..Len(jobs) :
              jobs[jid].index = k.index /\ jobs[jid].persisted # kInvalid]_vars

\* C36: once AlterTableStateToAbort of a BackfillTable has erased the
\* backfilled_until entries of its index, the job writes no such entry
\* again and sends no BackfillIndex request: a chunk of another tablet that
\* was in flight when the failure came is answered without a checkpoint
\* and without a next chunk.
C36_NoCheckpointAfterAbortCleared ==
  [][\A jid \in 1..Len(jobs), tb \in Tablets :
       jobs[jid].apc \in {"clear_ts", "returned"} =>
         /\ disk_tablets'[tb][jobs[jid].index] = disk_tablets[tb][jobs[jid].index]
         /\ tablets'[tb][jobs[jid].index] = tablets[tb][jobs[jid].index]
         /\ ChunksOf(chunks', jid, tb) = ChunksOf(chunks, jid, tb)]_vars

\* C37: an indexed table is not blocked for backfill for ever: on a master
\* that stays leader, whether the BackfillTable finishes, aborts or gives up
\* on an error, is_backfilling, once true, becomes false again.
C37_FlagEventuallyCleared == is_backfilling ~> ~is_backfilling

\* the permissions of an index that still has work pending
PendingPermissions ==
  { "DELETE_ONLY", "WRITE_AND_DELETE", "DO_BACKFILL",
    "WRITE_AND_DELETE_WHILE_REMOVING", "DELETE_ONLY_WHILE_REMOVING", "INDEX_UNUSED" }

\* the step in which a ClearAlteringState(current_version) of caller th commits
ClearCommits(th) ==
  /\ \/ threads[th].pc = "clear"
     \/ threads[th].pc = "classified" /\ threads[th].del = 0 /\ threads[th].bf = 0
  /\ threads'[th] = IdleThread
  /\ threads[th].ver = table.version
  /\ table' = ClearedAltering(table)
  /\ disk_table' = table'
  /\ table.state = "ALTERING"

\* C38: right after a ClearAlteringState of
\* LaunchNextTableInfoVersionIfNecessary commits and the table is RUNNING,
\* no index of the table has a permission with work pending, also when
\* DeleteIndexInfoFromTable failed or another index waits next to the one
\* that is deleted.
C38_RunningOnlyWhenNothingPending ==
  [][\A th \in Threads :
       ClearCommits(th) =>
         /\ table'.state = "RUNNING"
         /\ \A i \in Indexes : table'.perms[i] \notin PendingPermissions]_vars

====
